---- MODULE Spec2Model ----
(***************************************************************************)
(* The credential pool scheduler of the gateway (class ApiKeyPoolManager   *)
(* of src/src/db-manager.mjs) over its D1 store (src/sql/schema.sql), and  *)
(* the gateway that serves requests with it (src/unnamed/part_001).        *)
(*                                                                         *)
(* Timestamps are whole seconds.  Configuration values are the numbers     *)
(* their decimal strings denote; NULL is a missing row or SQL NULL.        *)
(***************************************************************************)
EXTENDS Integers, Sequences, FiniteSets, TLC

\* ------------------------------------------------------------------ bounds
MaxKeys == 3            \* the pool holds 1 .. MaxKeys credentials, ids from 1
MaxHours == 2           \* the clock runs from 0 to MaxHours hours
MaxCalls == 3           \* calls made on the manager in one behaviour
MaxRequests == 2        \* requests served by the gateway in one behaviour
MaxPieces == 6          \* pieces an upstream text is made of
MaxEvents == 3          \* lines the re-emitter is given in one stream
MaxInFlight == 2        \* calls on the manager that are in flight at once
MaxStarts == 4          \* calls started in one behaviour with calls in flight
MaxSelections == 12     \* selections started in one behaviour of selections

\* --------------------------------------------------------------- constants
NULL == -1
HourSeconds == 3600
DefaultCooldownHours == 24
DefaultMaxErrorsThreshold == 5

Strategies == {"round_robin", "least_used", "random", "unknown"}

\* Values the deployment may have stored in pool_config before the first request.
CooldownChoices == {1}
ThresholdChoices == {1, 2}
ResetIntervalChoices == {3600}

VARIABLES
  api_keys,      \* table api_keys: id -> row
  pool_config,   \* table pool_config: key -> value, NULL when the row is missing
  now,           \* CURRENT_TIMESTAMP / datetime('now'), in seconds
  last,          \* the last call made on the manager: its arguments, the time
                 \* it was made at, the store it found and what it returned
  run,           \* the round-robin selections made since the last recorded
                 \* error or disablement, and whether the whole pool was
                 \* available at the first of them
  calls,         \* the number of calls made so far
  twin           \* the same calls, with the same random draws, made on one
                 \* long-lived instance over a store of its own: the store,
                 \* the instance and what its last selection returned
VARIABLES
  api_key_usage, \* table api_key_usage: the rows, in insertion order
  env,           \* env.GEMINI_API_KEYS of the deployment, as a list of keys
  served,        \* the last request the gateway served and what came of it
  requests       \* the number of requests served so far
VARIABLES
  framer         \* the event framer of one streaming response: the decoded
                 \* upstream text, how much of it has arrived, the state of
                 \* the transform, whether an event came in more than one
                 \* chunk and whether the upstream has closed

VARIABLES
  pipe           \* the re-emitter of one streaming response: the state of
                 \* the transform, the lines it was given, what it gave the
                 \* controller, whether it was flushed and whether the
                 \* flush threw

VARIABLES
  turn           \* one chat completion that is not streamed: the messages
                 \* of the request, the body made for the upstream, the
                 \* upstream's reply, the body answered and how far it got

VARIABLES
  flight         \* the calls on the manager that are in flight, each
                 \* between two statements on the store: what each has read
                 \* and where it stands, and what the calls so far returned

vars == <<api_keys, pool_config, now, last, run, calls, twin,
          api_key_usage, env, served, requests, framer, pipe, turn, flight>>

\* The state of the translation of a response and the calls in flight,
\* which calls made one at a time and the routing of requests leave.
streaming == <<framer, pipe, turn, flight>>

\* The state of the gateway, which calls made on the manager directly leave.
gateway == <<api_key_usage, env, served, requests>>

\* ---------------------------------------------------------------- instance
\* new ApiKeyPoolManager(db): the fields of the instance.  The gateway builds
\* one for every request (LazyApiKeyPoolManager is created inside fetch).
NewInstance == [db |-> "LOG"]

\* ------------------------------------------------------------------- store
\* getConfig: the stored value, or null when there is none.
getConfig(cfg, key) == cfg[key]

\* setConfig: INSERT OR REPLACE of one row.
setConfig(cfg, key, value) == [cfg EXCEPT ![key] = value]

\* parseInt(v || dflt)
parseIntOr(v, dflt) == IF v = NULL THEN dflt ELSE v

\* resetRoundRobinIndex
resetRoundRobinIndex(cfg) == setConfig(cfg, "round_robin_index", 0)

IsEligible_Reversed(row, cooldownHours, t) ==
  \/ row.is_active
  \/ /\ ~row.is_active
     /\ row.last_used_at # NULL
     /\ row.last_used_at + cooldownHours * HourSeconds >= t

\* (A query that also takes the disabled rows that were never used.)
IsEligible_NeverUsed(row, cooldownHours, t) ==
  \/ row.is_active
  \/ /\ ~row.is_active
     /\ \/ row.last_used_at = NULL
        \/ row.last_used_at + cooldownHours * HourSeconds <= t

\* The WHERE clause of the selection query for one row.
IsEligible(row, cooldownHours, t) ==
  \/ row.is_active
  \/ /\ ~row.is_active
     /\ row.last_used_at # NULL
     /\ row.last_used_at + cooldownHours * HourSeconds <= t

\* SELECT * FROM api_keys WHERE ... ORDER BY id: the ids, ascending.
EligibleKeys(keys, cooldownHours, t) ==
  SelectSeq([i \in 1 .. Cardinality(DOMAIN keys) |-> i],
            LAMBDA id : IsEligible(keys[id], cooldownHours, t))

AvailableKeys_AtThreshold(keys, allKeys, maxErrorsThreshold) ==
  SelectSeq(allKeys, LAMBDA id : keys[id].error_count <= maxErrorsThreshold)

\* allKeys.filter(key => key.error_count < maxErrorsThreshold)
AvailableKeys(keys, allKeys, maxErrorsThreshold) ==
  SelectSeq(allKeys, LAMBDA id : keys[id].error_count < maxErrorsThreshold)

SeqToSet(s) == {s[i] : i \in DOMAIN s}

\* ------------------------------------------------------------ round robin
validateRoundRobinIndex_NoReset(cfg, currentKeysCount) ==
  setConfig(cfg, "round_robin_keys_count", currentKeysCount)

\* validateRoundRobinIndex: a changed eligible count resets the cursor.
validateRoundRobinIndex(cfg, currentKeysCount) ==
  LET savedKeysCount == getConfig(cfg, "round_robin_keys_count") IN
  IF savedKeysCount # NULL /\ savedKeysCount # currentKeysCount
    THEN setConfig(resetRoundRobinIndex(cfg), "round_robin_keys_count", currentKeysCount)
  ELSE IF savedKeysCount = NULL
    THEN setConfig(cfg, "round_robin_keys_count", currentKeysCount)
  ELSE cfg

\* (A scan that starts at the head of the list whatever the cursor.)
ReadRoundRobinIndex_FromZero(cfg, count) ==
  [index |-> 0,
   cfg |-> IF getConfig(cfg, "round_robin_index") = NULL
             THEN setConfig(setConfig(cfg, "round_robin_index", 0),
                            "round_robin_keys_count", count)
             ELSE cfg]

\* The cursor read after validation; a missing row initialises cursor and count.
ReadRoundRobinIndex(cfg, count) ==
  LET currentIndex == getConfig(cfg, "round_robin_index") IN
  IF currentIndex = NULL
    THEN [index |-> 0,
          cfg |-> setConfig(setConfig(cfg, "round_robin_index", 0),
                            "round_robin_keys_count", count)]
    ELSE [index |-> currentIndex, cfg |-> cfg]

\* The while loop of selectRoundRobinFromAvailable: allKeys is scanned from
\* currentIndex, wrapping, for at most Len(allKeys) attempts.  Positions are
\* 0-based as in the code; allKeys[p + 1] is the code's allKeys[p].
ScanFrom_Unchecked(allKeys, availableKeys, currentIndex, attempts) ==
  [key |-> allKeys[(currentIndex % Len(allKeys)) + 1], currentIndex |-> currentIndex]

RECURSIVE ScanFrom(_, _, _, _)
ScanFrom(allKeys, availableKeys, currentIndex, attempts) ==
  IF attempts >= Len(allKeys)
    THEN [key |-> NULL, currentIndex |-> currentIndex]
    ELSE LET candidateKey == allKeys[(currentIndex % Len(allKeys)) + 1] IN
         IF candidateKey \in SeqToSet(availableKeys)
           THEN [key |-> candidateKey, currentIndex |-> currentIndex]
           ELSE ScanFrom(allKeys, availableKeys,
                         (currentIndex + 1) % Len(allKeys), attempts + 1)

\* The cursor written back: one past the position the scan stopped at.
NextIndex_Stuck(currentIndex, n) == currentIndex % n
NextIndex(currentIndex, n) == (currentIndex + 1) % n

\* The round robin of an earlier revision, which kept its cursor in the
\* instance (this.lastUsedIndex).
selectRoundRobinFromAvailable_InMemory(self, cfg, allKeys, availableKeys, rnd) ==
  LET lastUsedIndex ==
        IF "lastUsedIndex" \in DOMAIN self THEN self.lastUsedIndex ELSE 0
  IN [key |-> availableKeys[(lastUsedIndex % Len(availableKeys)) + 1],
      cfg |-> cfg,
      self |-> [f \in DOMAIN self \cup {"lastUsedIndex"} |->
                  IF f = "lastUsedIndex"
                    THEN (lastUsedIndex + 1) % Len(availableKeys)
                    ELSE self[f]]]

\* selectRoundRobinFromAvailable: the key chosen, the configuration written
\* and the instance as the call leaves it (the method touches no field).
\* rnd is Math.floor(Math.random() * availableKeys.length).
selectRoundRobinFromAvailable(self, cfg, allKeys, availableKeys, rnd) ==
  LET cfg1 == validateRoundRobinIndex(cfg, Len(allKeys))
      rd == ReadRoundRobinIndex(cfg1, Len(allKeys))
      scan == ScanFrom(allKeys, availableKeys, rd.index, 0)
      selectedKey == IF scan.key = NULL THEN availableKeys[rnd + 1] ELSE scan.key
      nextIndex == NextIndex(scan.currentIndex, Len(allKeys))
  IN [key |-> selectedKey,
      cfg |-> setConfig(rd.cfg, "round_robin_index", nextIndex),
      self |-> self]

\* Whether the round-robin scan ends without a key (and a random one is drawn).
RoundRobinFallsBack(cfg, allKeys, availableKeys) ==
  LET cfg1 == validateRoundRobinIndex(cfg, Len(allKeys))
      rd == ReadRoundRobinIndex(cfg1, Len(allKeys))
  IN ScanFrom(allKeys, availableKeys, rd.index, 0).key = NULL

\* ------------------------------------------------- least used and random
\* keys.reduce((min, current) => current.total_requests < min.total_requests
\*                                 ? current : min), left to right.
RECURSIVE ReduceLeastUsed(_, _, _, _)
ReduceLeastUsed(keys, ids, i, min) ==
  IF i > Len(ids) THEN min
  ELSE ReduceLeastUsed(keys, ids, i + 1,
         IF keys[ids[i]].total_requests < keys[min].total_requests
           THEN ids[i] ELSE min)

\* (A selection that takes the first credential whatever its use.)
selectLeastUsed_First(keys, ids) == ids[1]

selectLeastUsed(keys, ids) == ReduceLeastUsed(keys, ids, 2, ids[1])

selectRandom(ids, rnd) == ids[rnd + 1]

\* ----------------------------------------------------------- getNextApiKey
\* UPDATE api_keys SET last_used_at, total_requests, updated_at, is_active
\* WHERE id = ?
UpdateOnSelect_NoReactivation(keys, id, t) ==
  [keys EXCEPT ![id] =
     [@ EXCEPT !.last_used_at = t, !.total_requests = @ + 1, !.updated_at = t]]

\* (A use that clears the errors counted on the credential.)
UpdateOnSelect_ClearsErrors(keys, id, t) ==
  [keys EXCEPT ![id] =
     [@ EXCEPT !.last_used_at = t,
               !.total_requests = @ + 1,
               !.updated_at = t,
               !.error_count = 0,
               !.is_active = IF @ = FALSE THEN TRUE ELSE @]]

UpdateOnSelect(keys, id, t) ==
  [keys EXCEPT ![id] =
     [@ EXCEPT !.last_used_at = t,
               !.total_requests = @ + 1,
               !.updated_at = t,
               !.is_active = IF @ = FALSE THEN TRUE ELSE @]]

CooldownHours(cfg) == parseIntOr(getConfig(cfg, "cooldown_hours"), DefaultCooldownHours)

MaxErrorsThreshold(cfg) ==
  parseIntOr(getConfig(cfg, "max_errors_threshold"), DefaultMaxErrorsThreshold)

\* The rows the query of getNextApiKey returns, and those below the threshold.
AllKeysOf(keys, cfg, t) == EligibleKeys(keys, CooldownHours(cfg), t)
AvailableOf(keys, cfg, t) ==
  AvailableKeys(keys, AllKeysOf(keys, cfg, t), MaxErrorsThreshold(cfg))

\* The strategy switch.
SelectByStrategy(self, keys, cfg, allKeys, availableKeys, strategy, rnd) ==
  CASE strategy = "round_robin" ->
         selectRoundRobinFromAvailable(self, cfg, allKeys, availableKeys, rnd)
    [] strategy = "least_used" ->
         [key |-> selectLeastUsed(keys, availableKeys), cfg |-> cfg, self |-> self]
    [] strategy = "random" ->
         [key |-> selectRandom(availableKeys, rnd), cfg |-> cfg, self |-> self]
    [] OTHER ->
         selectRoundRobinFromAvailable(self, cfg, allKeys, availableKeys, rnd)

\* (A selection that records the eligible count before it looks for an
\* available credential.)
getNextApiKey_CountsFirst(self, keys, cfg, strategy, rnd, t) ==
  LET allKeys == AllKeysOf(keys, cfg, t)
      availableKeys == AvailableOf(keys, cfg, t)
  IN IF Len(allKeys) = 0
       THEN [outcome |-> "PoolExhausted", key |-> NULL, keys |-> keys, cfg |-> cfg,
             self |-> self]
     ELSE IF Len(availableKeys) = 0
       THEN [outcome |-> "AllKeysExhausted", key |-> NULL, keys |-> keys,
             cfg |-> validateRoundRobinIndex(cfg, Len(allKeys)), self |-> self]
     ELSE LET sel == SelectByStrategy(self, keys, cfg, allKeys, availableKeys,
                                      strategy, rnd)
          IN [outcome |-> "ok", key |-> sel.key,
              keys |-> UpdateOnSelect(keys, sel.key, t), cfg |-> sel.cfg,
              self |-> sel.self]

\* getNextApiKey on instance self over the store (keys, cfg): what it returns
\* or throws, and the store and the instance it leaves.
getNextApiKey(self, keys, cfg, strategy, rnd, t) ==
  LET allKeys == AllKeysOf(keys, cfg, t)
      availableKeys == AvailableOf(keys, cfg, t)
  IN IF Len(allKeys) = 0
       THEN [outcome |-> "PoolExhausted", key |-> NULL, keys |-> keys, cfg |-> cfg,
             self |-> self]
     ELSE IF Len(availableKeys) = 0
       THEN [outcome |-> "AllKeysExhausted", key |-> NULL, keys |-> keys, cfg |-> cfg,
             self |-> self]
     ELSE LET sel == SelectByStrategy(self, keys, cfg, allKeys, availableKeys,
                                      strategy, rnd)
          IN [outcome |-> "ok", key |-> sel.key,
              keys |-> UpdateOnSelect(keys, sel.key, t), cfg |-> sel.cfg,
              self |-> sel.self]

\* The values Math.floor(Math.random() * availableKeys.length) can take where
\* the call draws one; 0 stands for no draw.
RandomDraws(keys, cfg, strategy, t) ==
  LET allKeys == AllKeysOf(keys, cfg, t)
      availableKeys == AvailableOf(keys, cfg, t)
  IN IF Len(availableKeys) = 0 THEN {0}
     ELSE IF strategy = "random" THEN 0 .. Len(availableKeys) - 1
     ELSE IF strategy = "least_used" THEN {0}
     ELSE IF RoundRobinFallsBack(cfg, allKeys, availableKeys)
       THEN 0 .. Len(availableKeys) - 1
     ELSE {0}

\* ------------------------------------------------------ health accounting
recordError_Disables(keys, id, t) ==
  [keys EXCEPT ![id] =
     [@ EXCEPT !.error_count = @ + 1, !.updated_at = t, !.is_active = FALSE]]

\* recordError: UPDATE api_keys SET error_count = error_count + 1, updated_at
recordError(keys, id, t) ==
  [keys EXCEPT ![id] = [@ EXCEPT !.error_count = @ + 1, !.updated_at = t]]

\* disableKeyOnRateLimit: UPDATE api_keys SET is_active = 0, last_used_at,
\* updated_at
disableKeyOnRateLimit_KeepsLastUsed(keys, id, t) ==
  [keys EXCEPT ![id] = [@ EXCEPT !.is_active = FALSE, !.updated_at = t]]

disableKeyOnRateLimit_ClearsErrors(keys, id, t) ==
  [keys EXCEPT ![id] =
     [@ EXCEPT !.is_active = FALSE, !.last_used_at = t, !.updated_at = t,
               !.error_count = 0]]

disableKeyOnRateLimit(keys, id, t) ==
  [keys EXCEPT ![id] =
     [@ EXCEPT !.is_active = FALSE, !.last_used_at = t, !.updated_at = t]]

\* The WHERE clause of resetExpiredErrors for one row; a NULL interval makes
\* the datetime() NULL and the comparison false.
ErrorsExpired_Reversed(row, resetInterval, t) ==
  /\ row.error_count > 0
  /\ resetInterval # NULL
  /\ row.updated_at + resetInterval > t

ErrorsExpired(row, resetInterval, t) ==
  /\ row.error_count > 0
  /\ resetInterval # NULL
  /\ row.updated_at + resetInterval < t

\* resetExpiredErrors
resetExpiredErrors(keys, cfg, t) ==
  LET resetInterval == getConfig(cfg, "error_reset_interval") IN
  [id \in DOMAIN keys |->
     IF ErrorsExpired(keys[id], resetInterval, t)
       THEN [keys[id] EXCEPT !.error_count = 0, !.updated_at = t]
       ELSE keys[id]]

\* ==================================================== request translation
\* (src/unnamed/part_001)  A chat request body is [messages, response_format,
\* stream].  A message is [role, content, tool_calls, tool_call_id]:
\*   content      [kind, json, parts]: kind is "null", "string" or "array";
\*                json tells whether JSON.parse accepts the string; parts is
\*                the array, of [type |-> ...];
\*   tool_calls   [present, list]: list is a sequence of
\*                [id, type, name, json], json telling whether JSON.parse
\*                accepts the arguments;
\*   tool_call_id a string, "" when it is missing.
BadRequest == 400

HttpError(status) == [error |-> status]

IsError(r) == "error" \in DOMAIN r

\* Property names every object literal inherits from Object.prototype whose
\* value is a function (a function has a name, and no property i).
ObjectPrototypeMethods ==
  {"constructor", "toString", "valueOf", "hasOwnProperty", "isPrototypeOf",
   "propertyIsEnumerable", "toLocaleString"}

\* parts.calls[tool_call_id] ?? {} destructured as { i, name }: the table is
\* the object literal built by transformFnCalls, so the lookup finds its own
\* entries and, for other ids, what the prototype chain has.  A missing i is
\* NULL, a missing name is "".
LookupCall(table, tool_call_id) ==
  IF tool_call_id \in DOMAIN table THEN table[tool_call_id]
  ELSE IF tool_call_id \in ObjectPrototypeMethods
    THEN [i |-> NULL, name |-> tool_call_id]
  ELSE [i |-> NULL, name |-> ""]

\* The ids that start with "call_", among those used here.
CallPrefixed == {"call_1", "call_2", "call_8", "call_9", "call_generated"}

\* id.startsWith("call_") ? null : id, "" standing for null
UpstreamId(id) == IF id \in CallPrefixed THEN "" ELSE id

\* parts[i] = { functionResponse }
PutResponse_AsTheyCome(parts, i, tool_call_id, name) ==
  [parts EXCEPT !.items =
     [k \in DOMAIN parts.items \cup {Cardinality(DOMAIN parts.items)} |->
        IF k \notin DOMAIN parts.items
          THEN [functionResponse |->
                  [id |-> UpstreamId(tool_call_id), name |-> name]]
          ELSE parts.items[k]]]

PutResponse(parts, i, tool_call_id, name) ==
  [parts EXCEPT !.items =
     [k \in DOMAIN parts.items \cup {i} |->
        IF k = i
          THEN [functionResponse |->
                  [id |-> UpstreamId(tool_call_id), name |-> name]]
          ELSE parts.items[k]]]

\* transformFnResponse: parts is [items, has_calls, calls], items a function
\* from the indices assigned so far (NULL for parts[undefined]) to the part
\* stored there.
transformFnResponse(item, parts) ==
  IF ~parts.has_calls THEN HttpError(BadRequest)
  ELSE IF ~item.content.json THEN HttpError(BadRequest)
  ELSE IF item.tool_call_id = "" THEN HttpError(BadRequest)
  ELSE LET c == LookupCall(parts.calls, item.tool_call_id) IN
    IF c.name = "" THEN HttpError(BadRequest)
    ELSE IF c.i \in DOMAIN parts.items THEN HttpError(BadRequest)
    ELSE PutResponse(parts, c.i, item.tool_call_id, c.name)

\* transformFnCalls: one functionCall part per call, and the table calls
\* from call id to the position and name of the call (a later call with the
\* same id overwrites the entry).
transformFnCalls(item) ==
  LET tc == item.tool_calls.list IN
  IF \E k \in DOMAIN tc : tc[k].type # "function" \/ ~tc[k].json
    THEN HttpError(BadRequest)
  ELSE
    [items |-> [k \in (0 .. Len(tc) - 1) |->
                  [functionCall |-> [id |-> UpstreamId(tc[k + 1].id),
                                     name |-> tc[k + 1].name]]],
     has_calls |-> TRUE,
     calls |-> [id \in {tc[k].id : k \in DOMAIN tc} |->
                  LET k == CHOOSE k \in DOMAIN tc :
                             /\ tc[k].id = id
                             /\ \A j \in DOMAIN tc : tc[j].id = id => j <= k
                  IN [i |-> k - 1, name |-> tc[k].name]]]

KnownPartTypes == {"text", "image_url", "input_audio"}

\* The parts array of a message without calls.
PlainParts(items) == [items |-> items, has_calls |-> FALSE, calls |-> <<>>]

\* The text of a string content is kept as "s", of a null content as ""
\* (both null and "" are falsy where the text is tested).
TextPart(content) == [text |-> IF content.kind = "string" THEN "s" ELSE ""]

\* The parts of an array content, and the empty text part appended when
\* every part is an image (also when the array is empty).
ArrayParts(content) ==
  LET n == Len(content.parts)
      images == \A k \in 1 .. n : content.parts[k].type = "image_url"
  IN [k \in (0 .. (IF images THEN n ELSE n - 1)) |->
        IF k < n THEN content.parts[k + 1] ELSE [text |-> ""]]

\* transformMsg: a string or null content becomes one text part; an array is
\* walked part by part, and a part of another type than the three known
\* ones is refused.
transformMsg(item) ==
  IF item.content.kind # "array"
    THEN PlainParts([k \in {0} |-> TextPart(item.content)])
  ELSE IF \E k \in DOMAIN item.content.parts :
            item.content.parts[k].type \notin KnownPartTypes
    THEN HttpError(BadRequest)
  ELSE PlainParts(ArrayParts(item.content))

\* parts.some(part => part.text): the array elements only.
HasText(parts) ==
  \E k \in DOMAIN parts.items :
    /\ k # NULL
    /\ "text" \in DOMAIN parts.items[k]
    /\ parts.items[k].text # ""

KnownRoles == {"system", "tool", "assistant", "user"}

\* The tool case of transformMessages: the response goes into the parts of
\* the last content when that is a function content, and otherwise into a
\* new function content that takes over the calls of the last content.
ToolStep(item, contents) ==
  LET n == Len(contents)
      open == n > 0 /\ contents[n].role = "function"
      parts == IF open THEN contents[n].parts
               ELSE [items |-> <<>>,
                     has_calls |-> n > 0 /\ contents[n].parts.has_calls,
                     calls |-> IF n > 0 THEN contents[n].parts.calls ELSE <<>>]
      r == transformFnResponse(item, parts)
  IN IF IsError(r) THEN r
     ELSE [contents |->
             IF open
               THEN [contents EXCEPT ![n] = [role |-> "function", parts |-> r]]
               ELSE Append(contents, [role |-> "function", parts |-> r])]

\* The loop of transformMessages from message k on, and what follows it.
RECURSIVE WalkMessages(_, _, _, _)
WalkMessages(messages, k, contents, system_instruction) ==
  IF k > Len(messages)
    THEN [system_instruction |-> system_instruction,
          contents |->
            IF /\ system_instruction.present
               /\ ~(Len(contents) > 0 /\ HasText(contents[1].parts))
              THEN <<[role |-> "user",
                      parts |-> PlainParts([j \in {0} |-> [text |-> " "]])]>>
                   \o contents
              ELSE contents]
  ELSE
    LET item == messages[k] IN
    IF item.role \notin KnownRoles THEN HttpError(BadRequest)
    ELSE IF item.role = "system" THEN
      LET p == transformMsg(item) IN
      IF IsError(p) THEN p
      ELSE WalkMessages(messages, k + 1, contents, [present |-> TRUE, parts |-> p])
    ELSE IF item.role = "tool" THEN
      LET c == ToolStep(item, contents) IN
      IF IsError(c) THEN c
      ELSE WalkMessages(messages, k + 1, c.contents, system_instruction)
    ELSE
      LET p == IF item.tool_calls.present THEN transformFnCalls(item)
               ELSE transformMsg(item)
      IN IF IsError(p) THEN p
         ELSE WalkMessages(messages, k + 1,
                           Append(contents,
                                  [role |-> IF item.role = "assistant"
                                              THEN "model" ELSE "user",
                                   parts |-> p]),
                           system_instruction)

\* transformMessages
transformMessages(messages) ==
  WalkMessages(messages, 1, <<>>, [present |-> FALSE, parts |-> PlainParts(<<>>)])

\* transformConfig: the response_format part; type is "" when the request
\* has no response_format.
transformConfig(req) ==
  CASE req.response_format.type = "" -> [responseMimeType |-> ""]
    [] req.response_format.type = "json_schema" ->
         [responseMimeType |-> "application/json"]
    [] req.response_format.type = "json_object" ->
         [responseMimeType |-> "application/json"]
    [] req.response_format.type = "text" -> [responseMimeType |-> "text/plain"]
    [] OTHER -> HttpError(BadRequest)

\* transformRequest: the messages are translated first, so their error is
\* the one thrown when both fail.
transformRequest(req) ==
  LET m == transformMessages(req.messages)
      c == transformConfig(req)
  IN IF IsError(m) THEN m
     ELSE IF IsError(c) THEN c
     ELSE [system_instruction |-> m.system_instruction, contents |-> m.contents,
           generationConfig |-> c]

\* ================================================================ gateway
\* (src/unnamed/part_001, fetch and its handlers)  A request is
\* [method, route, authorization, body]: route is the endpoint the pathname
\* ends with ("other" for none of the three), authorization the words of the
\* Authorization header (<<>> without the header), body
\* [json, model, messages, response_format, stream] with json telling
\* whether request.json() parses it and model whether req.model is a string.
\* The upstream answers a call with a status, or the call throws.
TransportFailure == 0

UpstreamOutcomes == {200, 429, 500, TransportFailure}

\* response.ok
ResponseOk(status) == status >= 200 /\ status <= 299

\* auth?.split(" ")[1], "" when there is none
BearerToken(authorization) ==
  IF Len(authorization) >= 2 THEN authorization[2] ELSE ""

\* recordUsage: one row of api_key_usage, when tracking is on.
recordUsage(cfg, usage, id, endpoint, status) ==
  IF getConfig(cfg, "enable_usage_tracking") # 1 THEN usage
  ELSE Append(usage, [api_key_id |-> id, endpoint |-> endpoint,
                      response_status |-> status])

\* if (!apiKey) of fetch: the pool is asked when the header gave no key.
AsksPool_Always(apiKey) == TRUE

AsksPool(apiKey) == apiKey = ""

\* The credential of a request: the caller's bearer token, or the next key
\* of the pool (LazyApiKeyPoolManager.getNextApiKey passes no strategy, so
\* the default round_robin is used), or when the pool throws one of
\* env.GEMINI_API_KEYS (the one at a random index), or none.  id is selectedKeyInfo.id, NULL without it.
CredentialOf(token, envKeys, keys, cfg, index, r) ==
  IF ~AsksPool(token)
    THEN [source |-> "bearer", apiKey |-> token, id |-> NULL,
          outcome |-> "none", keys |-> keys, cfg |-> cfg]
  ELSE IF r.outcome = "ok"
    THEN [source |-> "pool", apiKey |-> "pool-key", id |-> r.key,
          outcome |-> r.outcome, keys |-> r.keys, cfg |-> r.cfg]
  ELSE IF Len(envKeys) > 0
    THEN [source |-> "env", apiKey |-> envKeys[index + 1], id |-> NULL,
          outcome |-> r.outcome, keys |-> r.keys, cfg |-> r.cfg]
  ELSE [source |-> "none", apiKey |-> token, id |-> NULL,
        outcome |-> r.outcome, keys |-> r.keys, cfg |-> r.cfg]

\* The first part of fetch: the token of the header, and the key the pool
\* gives (r is what getNextApiKey returns or throws).
PickCredential(authorization, envKeys, keys, cfg, rnd, index, t) ==
  CredentialOf(BearerToken(authorization), envKeys, keys, cfg, index,
               getNextApiKey(NewInstance, keys, cfg, "round_robin", rnd, t))

\* What a handler leaves: whether the upstream was called and with which
\* x-goog-api-key ("" for a call without the header), the response to the
\* caller (its status, and whether its body is the upstream's own body, its
\* translation, the translating stream or an error message), and the store.
Rejected(status, keys, usage) ==
  [called |-> FALSE, key |-> "", status |-> status, body |-> "message",
   keys |-> keys, usage |-> usage]

\* The three handlers after their upstream call: a thrown call reaches
\* errHandler (status 500); an answer is recorded for a pool credential
\* (recordUsage, and recordError when it is not ok) and passed on.
AfterUpstream_IgnoresErrors(endpoint, cred, upstream, stream, cfg, usage, t) ==
  IF upstream = TransportFailure
    THEN [called |-> TRUE, key |-> cred.apiKey, status |-> 500,
          body |-> "message", keys |-> cred.keys, usage |-> usage]
  ELSE
    [called |-> TRUE, key |-> cred.apiKey, status |-> upstream,
     body |-> IF ~ResponseOk(upstream) THEN "upstream"
              ELSE IF stream THEN "stream" ELSE "translated",
     keys |-> cred.keys,
     usage |-> IF cred.id # NULL
                 THEN recordUsage(cfg, usage, cred.id, endpoint, upstream)
                 ELSE usage]

AfterUpstream_CountsFailures(endpoint, cred, upstream, stream, cfg, usage, t) ==
  IF upstream = TransportFailure
    THEN [called |-> TRUE, key |-> cred.apiKey, status |-> 500,
          body |-> "message",
          keys |-> IF cred.id # NULL THEN recordError(cred.keys, cred.id, t)
                   ELSE cred.keys,
          usage |-> usage]
  ELSE
    [called |-> TRUE, key |-> cred.apiKey, status |-> upstream,
     body |-> IF ~ResponseOk(upstream) THEN "upstream"
              ELSE IF stream THEN "stream" ELSE "translated",
     keys |-> IF cred.id # NULL /\ ~ResponseOk(upstream)
                THEN recordError(cred.keys, cred.id, t) ELSE cred.keys,
     usage |-> IF cred.id # NULL
                 THEN recordUsage(cfg, usage, cred.id, endpoint, upstream)
                 ELSE usage]

AfterUpstream(endpoint, cred, upstream, stream, cfg, usage, t) ==
  IF upstream = TransportFailure
    THEN [called |-> TRUE, key |-> cred.apiKey, status |-> 500,
          body |-> "message", keys |-> cred.keys, usage |-> usage]
  ELSE
    [called |-> TRUE, key |-> cred.apiKey, status |-> upstream,
     body |-> IF ~ResponseOk(upstream) THEN "upstream"
              ELSE IF stream THEN "stream" ELSE "translated",
     keys |-> IF cred.id # NULL /\ ~ResponseOk(upstream)
                THEN recordError(cred.keys, cred.id, t) ELSE cred.keys,
     usage |-> IF cred.id # NULL
                 THEN recordUsage(cfg, usage, cred.id, endpoint, upstream)
                 ELSE usage]

\* handleCompletions: the request is translated before the upstream call.
handleCompletions(req, cred, upstream, cfg, usage, t) ==
  LET body == transformRequest(req) IN
  IF IsError(body) THEN Rejected(body.error, cred.keys, usage)
  ELSE AfterUpstream("chat/completions", cred, upstream, req.stream, cfg, usage, t)

\* handleEmbeddings
handleEmbeddings(req, cred, upstream, cfg, usage, t) ==
  IF ~req.model THEN Rejected(BadRequest, cred.keys, usage)
  ELSE AfterUpstream("embeddings", cred, upstream, FALSE, cfg, usage, t)

\* handleModels
handleModels(cred, upstream, cfg, usage, t) ==
  AfterUpstream("models", cred, upstream, FALSE, cfg, usage, t)

\* fetch once the credential cred is picked: OPTIONS is answered at once
\* (before any credential is looked for); otherwise the route checks the
\* method, parses the body (a body that does not parse throws a
\* SyntaxError, status 500) and runs its handler.  The result carries the
\* credential picked.
Routed(request, cred, keys, cfg, usage, upstream, t) ==
  LET none == [source |-> "none", apiKey |-> "", id |-> NULL,
               outcome |-> "none", keys |-> keys, cfg |-> cfg]
      wrongMethod == Rejected(BadRequest, cred.keys, usage)
      unparsable == Rejected(500, cred.keys, usage)
      r == CASE request.route = "chat/completions" ->
                  IF request.method # "POST" THEN wrongMethod
                  ELSE IF ~request.body.json THEN unparsable
                  ELSE handleCompletions(request.body, cred, upstream, cred.cfg, usage, t)
             [] request.route = "embeddings" ->
                  IF request.method # "POST" THEN wrongMethod
                  ELSE IF ~request.body.json THEN unparsable
                  ELSE handleEmbeddings(request.body, cred, upstream, cred.cfg, usage, t)
             [] request.route = "models" ->
                  IF request.method # "GET" THEN wrongMethod
                  ELSE handleModels(cred, upstream, cred.cfg, usage, t)
             [] OTHER -> Rejected(404, cred.keys, usage)
  IN IF request.method = "OPTIONS"
       THEN [cred |-> none, res |-> [called |-> FALSE, key |-> "", status |-> 200,
                                     body |-> "none", keys |-> keys, usage |-> usage]]
       ELSE [cred |-> cred, res |-> r]

\* fetch, for the routes of the API (the /admin routes are not requests to
\* the upstream).
fetch(request, envKeys, keys, cfg, usage, upstream, rnd, index, t) ==
  Routed(request,
         PickCredential(request.authorization, envKeys, keys, cfg, rnd, index, t),
         keys, cfg, usage, upstream, t)

\* ============================================================ event framer
\* (src/unnamed/part_001, parseStream / parseStreamFlush)  The decoded
\* upstream text is a sequence of characters; the buffer and the events are
\* sequences of characters too.
LF == "\n"
CR == "\r"

DataPrefix == <<"d", "a", "t", "a", ":", " ">>

Terminators == {<<LF, LF>>, <<CR, CR>>, <<CR, LF, CR, LF>>}

\* s starts with p.
StartsWith(s, p) == Len(s) >= Len(p) /\ SubSeq(s, 1, Len(p)) = p

\* The position in s, from position k on, of the first line terminator
\* character (which "." does not match), 0 when there is none.
RECURSIVE FirstBreak(_, _)
FirstBreak(s, k) ==
  IF k > Len(s) THEN 0
  ELSE IF s[k] \in {LF, CR} THEN k
  ELSE FirstBreak(s, k + 1)

\* buffer.match(/^data: (.*)(?:\n\n|\r\r|\r\n\r\n)/): the text captured and
\* the length of the whole match, or no match.
MatchLine(buffer) ==
  LET b == FirstBreak(buffer, Len(DataPrefix) + 1)
      rest == SubSeq(buffer, b, Len(buffer))
      ends == {t \in Terminators : StartsWith(rest, t)}
  IN IF ~StartsWith(buffer, DataPrefix) \/ b = 0 \/ ends = {}
       THEN [found |-> FALSE, line |-> <<>>, length |-> 0]
       ELSE [found |-> TRUE,
             line |-> SubSeq(buffer, Len(DataPrefix) + 1, b - 1),
             length |-> b - 1 + Len(CHOOSE t \in ends : TRUE)]

\* The do-while of parseStream: events are taken from the front of the
\* buffer for as long as it matches.
RECURSIVE DrainBuffer(_, _)
DrainBuffer(buffer, events) ==
  LET m == MatchLine(buffer) IN
  IF ~m.found THEN [buffer |-> buffer, events |-> events]
  ELSE DrainBuffer(SubSeq(buffer, m.length + 1, Len(buffer)),
                   Append(events, m.line))

\* parseStream: this is [buffer, events, is_buffers_rest], events being what
\* the controller was given so far.
parseStream_ForgetsPartial(this, chunk) ==
  LET d == DrainBuffer(chunk, this.events) IN
  [this EXCEPT !.buffer = d.buffer, !.events = d.events]

parseStream(this, chunk) ==
  LET d == DrainBuffer(this.buffer \o chunk, this.events) IN
  [this EXCEPT !.buffer = d.buffer, !.events = d.events]

\* parseStreamFlush: what is left in the buffer is given as a last event,
\* and the flag of the shared state tells so.
parseStreamFlush(this) ==
  IF this.buffer # <<>>
    THEN [this EXCEPT !.events = Append(this.events, this.buffer),
                      !.is_buffers_rest = TRUE]
    ELSE this

\* new TransformStream({ transform: parseStream, buffer: "", shared })
NewFramer == [buffer |-> <<>>, events |-> <<>>, is_buffers_rest |-> FALSE]

\* Upstream texts: up to MaxPieces pieces, each the data prefix, a payload
\* character or a line terminator character.
Pieces == {DataPrefix, <<"x">>, <<LF>>, <<CR>>}

RECURSIVE TextsOf(_)
TextsOf(n) ==
  IF n = 0 THEN {<<>>}
  ELSE LET shorter == TextsOf(n - 1) IN
       shorter \cup {s \o p : s \in shorter, p \in Pieces}

UpstreamTexts == TextsOf(MaxPieces)

\* ========================================================= chunk re-emitter
\* (src/unnamed/part_001, toOpenAiStream / toOpenAiStreamFlush)  A line the
\* framer gives is [kind, candidates, blockReason, usageMetadata]: kind is
\* "event" for JSON with candidates and "garbage" for any other line; a
\* candidate is [index, parts, finishReason], parts telling whether its
\* content has no part ("none"), text ("text") or a function call ("call"),
\* finishReason "" when it has none.  What the controller is given is
\* [kind, by, choices, usage, text]: a chunk ("chunk"), a line passed on
\* ("raw") or the sentinel ("done"); by is the number of the line handled
\* when it was given (one past the last for the flush).  A choice is
\* [index, delta, finish_reason], a delta [isnull, role, content,
\* tool_calls]; role "" and content "absent" stand for a missing property,
\* "undefined" for a property JSON.stringify leaves out.
Delta(role, content, tool_calls) ==
  [isnull |-> FALSE, role |-> role, content |-> content, tool_calls |-> tool_calls]

NullDelta ==
  [isnull |-> TRUE, role |-> "", content |-> "absent", tool_calls |-> FALSE]

Choice(index, delta, finish_reason) ==
  [index |-> index, delta |-> delta, finish_reason |-> finish_reason]

\* reasonsMap[cand.finishReason] || cand.finishReason
reasonsMap(finishReason) ==
  CASE finishReason = "STOP" -> "stop"
    [] finishReason = "MAX_TOKENS" -> "length"
    [] finishReason = "SAFETY" -> "content_filter"
    [] finishReason = "RECITATION" -> "content_filter"
    [] finishReason = "" -> "undefined"
    [] OTHER -> finishReason

\* transformCandidates bound to "delta": content is the joined text or null,
\* tool_calls is there when a part is a function call.
transformCandidatesDelta(cand) ==
  Choice(cand.index,
         Delta("assistant",
               IF cand.parts = "text" THEN "text" ELSE "null",
               cand.parts = "call"),
         IF cand.parts = "call" THEN "tool_calls"
         ELSE reasonsMap(cand.finishReason))

\* checkPromptBlock for no choices: the choice pushed for a blocked prompt.
checkPromptBlock(blockReason) ==
  IF blockReason THEN <<Choice(0, NullDelta, "content_filter")>> ELSE <<>>

\* sseline(obj), and the other things enqueued
Chunk(by, choices, usage) ==
  [kind |-> "chunk", by |-> by, choices |-> choices, usage |-> usage, text |-> ""]

Raw(by, text) ==
  [kind |-> "raw", by |-> by, choices |-> <<>>, usage |-> "undefined", text |-> text]

Done(by) ==
  [kind |-> "done", by |-> by, choices |-> <<>>, usage |-> "undefined",
   text |-> "data: [DONE]"]

\* this.last is an array: position index + 1 of the sequence holds the
\* element at index, a hole being an element that is not present.
Hole == [present |-> FALSE, choices |-> <<>>, usage |-> "undefined"]

\* this.last[index], as a truth value
Seen(this, index) == index + 1 <= Len(this.last) /\ this.last[index + 1].present

\* this.last[index] = obj
Remember_KeepsFirst(this, index, choices, usage) ==
  LET n == IF index + 1 > Len(this.last) THEN index + 1 ELSE Len(this.last) IN
  [this EXCEPT !.last =
     [k \in 1 .. n |->
        IF k <= Len(this.last) /\ this.last[k].present THEN this.last[k]
        ELSE IF k = index + 1
          THEN [present |-> TRUE, choices |-> choices, usage |-> usage]
        ELSE Hole]]

Remember(this, index, choices, usage) ==
  LET n == IF index + 1 > Len(this.last) THEN index + 1 ELSE Len(this.last) IN
  [this EXCEPT !.last =
     [k \in 1 .. n |->
        IF k = index + 1
          THEN [present |-> TRUE, choices |-> choices, usage |-> usage]
        ELSE IF k <= Len(this.last) THEN this.last[k]
        ELSE Hole]]

\* line =+ delimiter assigns +"\n\n", the number 0, to line.
PassedOn(this) == IF ~this.is_buffers_rest THEN "0" ELSE "line"

\* delete cand.delta.role
DeleteRole_Kept(delta) == delta

DeleteRole(delta) == [delta EXCEPT !.role = ""]

\* "content" in cand.delta
ContentIn(delta) == delta.content # "absent"

\* data.usageMetadata && this.streamIncludeUsage
Counted_Unasked(this, line) == line.usageMetadata

Counted(this, line) == line.usageMetadata /\ this.streamIncludeUsage

\* toOpenAiStream on line number by: what the controller is given, and the
\* state left.  this is [last, streamIncludeUsage, is_buffers_rest].
toOpenAiStream(this, line, by) ==
  LET choices == [k \in 1 .. Len(line.candidates) |->
                    transformCandidatesDelta(line.candidates[k])]
      counted == Counted(this, line)
      usage == IF counted THEN "null" ELSE "undefined"
  IN
  IF line.kind # "event"
    THEN [this |-> this, given |-> <<Raw(by, PassedOn(this))>>]
  ELSE IF Len(choices) = 0
    THEN [this |-> this,
          given |-> <<Chunk(by, checkPromptBlock(line.blockReason), usage)>>]
  ELSE
    LET cand == choices[1]
        quiet == [cand EXCEPT !.finish_reason = "null"]
        announce == [quiet EXCEPT !.delta = Delta("assistant", "", FALSE)]
        content == [quiet EXCEPT !.delta = DeleteRole(@)]
        left == [cand EXCEPT !.delta = Delta("", "absent", FALSE)]
    IN [this |-> Remember(this, cand.index, <<left>> \o Tail(choices),
                          IF counted THEN "totals" ELSE usage),
        given |->
          (IF ~Seen(this, cand.index)
             THEN <<Chunk(by, <<announce>>, usage)>> ELSE <<>>)
          \o (IF ContentIn(content.delta)
                THEN <<Chunk(by, <<content>> \o Tail(choices), usage)>>
                ELSE <<>>)]

\* The loop of toOpenAiStreamFlush from position k on: sseline(undefined)
\* throws at a hole, and what was given before it stays given.
RECURSIVE FlushFrom(_, _, _)
FlushFrom(this, k, by) ==
  IF k > Len(this.last) THEN [given |-> <<Done(by)>>, thrown |-> FALSE]
  ELSE IF ~this.last[k].present THEN [given |-> <<>>, thrown |-> TRUE]
  ELSE LET rest == FlushFrom(this, k + 1, by) IN
       [given |-> <<Chunk(by, this.last[k].choices, this.last[k].usage)>>
                  \o rest.given,
        thrown |-> rest.thrown]

\* toOpenAiStreamFlush
toOpenAiStreamFlush_Always(this, by) == FlushFrom(this, 1, by)

toOpenAiStreamFlush(this, by) ==
  IF Len(this.last) > 0 THEN FlushFrom(this, 1, by)
  ELSE [given |-> <<>>, thrown |-> FALSE]

\* new TransformStream({ transform: toOpenAiStream, ..., last: [], shared })
NewPipe(streamIncludeUsage) ==
  [last |-> <<>>, streamIncludeUsage |-> streamIncludeUsage,
   is_buffers_rest |-> FALSE]

\* Lines of an upstream stream: a line that is no event, an event without
\* candidates (with or without a block reason) and events of one candidate.
Candidate(index, parts, finishReason) ==
  [index |-> index, parts |-> parts, finishReason |-> finishReason]

Line(kind, candidates, blockReason, usageMetadata) ==
  [kind |-> kind, candidates |-> candidates, blockReason |-> blockReason,
   usageMetadata |-> usageMetadata]

Candidates ==
  {Candidate(index, parts, finishReason) :
     index \in {0, 1}, parts \in {"none", "text", "call"},
     finishReason \in {"", "MAX_TOKENS"}}

Lines ==
  {Line("garbage", <<>>, FALSE, FALSE)}
  \cup {Line("event", <<>>, blockReason, FALSE) : blockReason \in BOOLEAN}
  \cup {Line("event", <<cand>>, FALSE, usageMetadata) :
          cand \in Candidates, usageMetadata \in BOOLEAN}

\* ========================================================= reply assembler
\* (src/unnamed/part_001, processCompletionsResponse and the end of
\* handleCompletions)  The body of an upstream reply that is not streamed is
\* [json, candidates, blockReason, usageMetadata]: json tells whether it
\* parses to an object with candidates.  A candidate is
\* [index, parts, finishReason], a part [kind, id, name]: a text ("text") or
\* a function call ("call") with its name and its id, "" when the upstream
\* gave none.  The completion has choices [index, message, finish_reason],
\* a message being [isnull, role, content, tool_calls].
ReplyText == [kind |-> "text", id |-> "", name |-> ""]

ReplyCall(id, name) == [kind |-> "call", id |-> id, name |-> name]

\* "call_" + generateId(): the characters are random.
GeneratedId == "call_generated"

NullMessage ==
  [isnull |-> TRUE, role |-> "", content |-> "null", tool_calls |-> <<>>]

\* transformCandidates bound to "message": the function calls become
\* tool_calls in the order of the parts, the other parts the content.
transformCandidatesMessage(cand) ==
  LET fcs == SelectSeq(cand.parts, LAMBDA part : part.kind = "call")
      tool_calls == [k \in 1 .. Len(fcs) |->
                       [id |-> IF fcs[k].id = "" THEN GeneratedId ELSE fcs[k].id,
                        type |-> "function", name |-> fcs[k].name]]
  IN [index |-> cand.index,
      message |-> [isnull |-> FALSE, role |-> "assistant",
                   content |-> IF \E k \in DOMAIN cand.parts :
                                    cand.parts[k].kind = "text"
                                 THEN "text" ELSE "null",
                   tool_calls |-> tool_calls],
      finish_reason |-> IF Len(fcs) > 0 THEN "tool_calls"
                        ELSE reasonsMap(cand.finishReason)]

\* checkPromptBlock with key "message", for no choices
checkPromptBlockMessage_Empty(blockReason) == <<>>

checkPromptBlockMessage(blockReason) ==
  IF blockReason
    THEN <<[index |-> 0, message |-> NullMessage, finish_reason |-> "content_filter"]>>
    ELSE <<>>

\* The sum of a reduce that met a value that is no number.
NaN == -2

\* num ?? 0
OrZero(num) == IF num = NULL THEN 0 ELSE num

\* sum(...numbers): numbers.reduce((total, num) => total + (num ?? 0), 0)
RECURSIVE sum(_)
sum(numbers) ==
  IF numbers = <<>> THEN 0
  ELSE sum(SubSeq(numbers, 1, Len(numbers) - 1)) + OrZero(numbers[Len(numbers)])

\* acc + el.tokenCount, where either may be no number.
Plus(acc, tokenCount) ==
  IF acc = NaN \/ tokenCount = NULL THEN NaN ELSE acc + tokenCount

\* cacheTokensDetails?.reduce((acc, el) => acc + el.tokenCount, 0); the
\* field is [present, list], an element of the list the tokenCount of it.
RECURSIVE ReduceTokenCounts(_)
ReduceTokenCounts(details) ==
  IF details = <<>> THEN 0
  ELSE Plus(ReduceTokenCounts(SubSeq(details, 1, Len(details) - 1)),
            details[Len(details)])

\* Boolean(v) of a number or undefined.
Truthy(v) == v \notin {NULL, NaN, 0}

\* notEmpty(el): the object when one of its values is truthy, else undefined.
\* (present tells which.)
notEmpty(el) ==
  [f \in DOMAIN el \cup {"present"} |->
     IF f = "present" THEN \E g \in DOMAIN el : Truthy(el[g]) ELSE el[f]]

\* transformUsage: NULL is undefined, a field JSON.stringify leaves out.
\* candidatesAudio and promptAudio are the tokenCount of the AUDIO element of
\* candidatesTokensDetails and promptTokensDetails, NULL when there is none.
transformUsage(data) ==
  [completion_tokens |-> sum(<<data.candidatesTokenCount,
                               data.toolUsePromptTokenCount,
                               data.thoughtsTokenCount>>),
   prompt_tokens |-> data.promptTokenCount,
   total_tokens |-> data.totalTokenCount,
   completion_tokens_details |->
     notEmpty([audio_tokens |-> data.candidatesAudio,
               reasoning_tokens |-> data.thoughtsTokenCount]),
   prompt_tokens_details |->
     notEmpty([audio_tokens |-> data.promptAudio,
               cached_tokens |->
                 IF ~data.cacheTokensDetails.present THEN NULL
                 ELSE ReduceTokenCounts(data.cacheTokensDetails.list)])]

\* A list of details, and a missing one.
Details(list) == [present |-> TRUE, list |-> list]

NoDetails == [present |-> FALSE, list |-> <<>>]

\* The counters of an upstream reply: each may be missing.
UsageMetadata(candidates, toolUse, thoughts, prompt, total, cache, audio) ==
  [candidatesTokenCount |-> candidates, toolUsePromptTokenCount |-> toolUse,
   thoughtsTokenCount |-> thoughts, promptTokenCount |-> prompt,
   totalTokenCount |-> total, cacheTokensDetails |-> cache,
   candidatesAudio |-> audio, promptAudio |-> audio]

UsageMetadatas ==
  {UsageMetadata(candidates, toolUse, thoughts, prompt, total, cache, audio) :
     candidates \in {NULL, 1}, toolUse \in {NULL, 2}, thoughts \in {NULL, 4},
     prompt \in {NULL, 8}, total \in {NULL, 15},
     cache \in {NoDetails, Details(<<1, 2>>), Details(<<1, NULL>>)},
     audio \in {NULL, 1}}

\* A reply without usageMetadata.
NoUsageMetadata == UsageMetadata(NULL, NULL, NULL, NULL, NULL, NoDetails, NULL)

\* data.usageMetadata && transformUsage(data.usageMetadata): the content of
\* the usage field, when there is one.
UsageOf(data) ==
  IF data.usageMetadata THEN transformUsage(data.counters)
  ELSE transformUsage(NoUsageMetadata)

\* processCompletionsResponse
processCompletionsResponse(data) ==
  LET choices == [k \in 1 .. Len(data.candidates) |->
                    transformCandidatesMessage(data.candidates[k])]
  IN [kind |-> "completion",
      choices |-> IF Len(choices) = 0
                    THEN checkPromptBlockMessage(data.blockReason)
                    ELSE choices,
      usage |-> IF data.usageMetadata THEN "totals" ELSE "undefined",
      totals |-> UsageOf(data)]

\* The body handleCompletions answers with when the reply is not streamed:
\* a reply that is no completion object is passed on as it is.
AssembleBody(data) ==
  IF ~data.json
    THEN [kind |-> "asis", choices |-> <<>>, usage |-> "undefined",
          totals |-> transformUsage(NoUsageMetadata)]
    ELSE processCompletionsResponse(data)

\* Upstream replies: one that is no completion object, one without
\* candidates (with and without a block reason), and those of one candidate.
ReplyCandidate(parts, finishReason) ==
  [index |-> 0, parts |-> parts, finishReason |-> finishReason]

ReplyParts ==
  {<<>>, <<ReplyText>>, <<ReplyCall("call_9", "g")>>, <<ReplyCall("", "g")>>,
   <<ReplyText, ReplyCall("call_9", "g")>>,
   <<ReplyCall("call_8", "f"), ReplyText, ReplyCall("call_9", "g")>>}

Reply(json, candidates, blockReason, usageMetadata) ==
  [json |-> json, candidates |-> candidates, blockReason |-> blockReason,
   usageMetadata |-> usageMetadata, counters |-> NoUsageMetadata]

Replies ==
  {Reply(FALSE, <<>>, FALSE, FALSE)}
  \cup {Reply(TRUE, <<>>, blockReason, FALSE) : blockReason \in BOOLEAN}
  \cup {Reply(TRUE, <<ReplyCandidate(parts, finishReason)>>, FALSE, usageMetadata) :
          parts \in ReplyParts, finishReason \in {"", "STOP"},
          usageMetadata \in BOOLEAN}

\* ------------------------------------------------------- gateway requests
NoContent == [kind |-> "null", json |-> FALSE, parts |-> <<>>]

StringContent(json) == [kind |-> "string", json |-> json, parts |-> <<>>]

ArrayContent(parts) == [kind |-> "array", json |-> FALSE, parts |-> parts]

NoToolCalls == [present |-> FALSE, list |-> <<>>]

Message(role, content, tool_calls, tool_call_id) ==
  [role |-> role, content |-> content, tool_calls |-> tool_calls,
   tool_call_id |-> tool_call_id]

\* The call an assistant message makes.
CallOf(id) == [id |-> id, type |-> "function", name |-> "f", json |-> TRUE]

\* Messages a conversation is made of: plain ones of the known roles and of
\* an unknown one, a user message with a part of a known and of an unknown
\* type, an assistant message calling call_1 (without content, and with a
\* content part of an unknown type), and tool results for call_1, for
\* call_2 and for toString.
PlainMessages ==
  {Message(role, StringContent(FALSE), NoToolCalls, "") :
     role \in {"user", "system", "developer"}}

PartMessages ==
  {Message("user", ArrayContent(<<[type |-> type]>>), NoToolCalls, "") :
     type \in {"text", "video"}}

CallMessages ==
  {Message("assistant", content, [present |-> TRUE, list |-> <<CallOf("call_1")>>], "") :
     content \in {NoContent, ArrayContent(<<[type |-> "video"]>>)}}

ToolMessages ==
  {Message("tool", StringContent(TRUE), NoToolCalls, id) :
     id \in {"call_1", "call_2", "toString"}}

Messages == PlainMessages \cup PartMessages \cup CallMessages \cup ToolMessages

\* One message that is not a tool result, or a plain message or a call and a
\* tool result after it, or a call and two tool results after it.
Conversations ==
  {<<m>> : m \in Messages \ ToolMessages}
  \cup {<<m, t>> : m \in PlainMessages \cup CallMessages, t \in ToolMessages}
  \cup {<<m, t, u>> : m \in CallMessages, t \in ToolMessages, u \in ToolMessages}

ResponseFormats == {"", "json_object", "xml"}

ChatBody(json, messages, format, stream) ==
  [json |-> json, model |-> TRUE, messages |-> messages,
   response_format |-> [type |-> format], stream |-> stream]

\* A user message and nothing else.
Question == <<Message("user", StringContent(FALSE), NoToolCalls, "")>>

\* Chat bodies: every conversation, and for the plain question every
\* response_format, streaming or not.
ChatBodies ==
  {ChatBody(TRUE, c, "", FALSE) : c \in Conversations}
  \cup {ChatBody(TRUE, Question, f, s) : f \in ResponseFormats, s \in BOOLEAN}

\* The plain question, streaming or not, and a body that is not JSON.
PlainBodies ==
  {ChatBody(TRUE, Question, "", s) : s \in BOOLEAN}
  \cup {ChatBody(FALSE, <<>>, "", FALSE)}

\* Embedding bodies: with and without a model.
EmbeddingBodies ==
  {[json |-> TRUE, model |-> m, messages |-> <<>>,
    response_format |-> [type |-> ""], stream |-> FALSE] : m \in BOOLEAN}

NoBody == [json |-> FALSE, model |-> FALSE, messages |-> <<>>,
           response_format |-> [type |-> ""], stream |-> FALSE]

Authorizations == {<<>>, <<"Bearer">>, <<"Bearer", "caller-key">>}

Request(method, route, authorization, body) ==
  [method |-> method, route |-> route, authorization |-> authorization,
   body |-> body]

\* Requests to every route, with the right and with a wrong method.
Requests ==
  {Request("POST", "chat/completions", a, b) : a \in Authorizations, b \in PlainBodies}
  \cup {Request("POST", "embeddings", a, b) : a \in Authorizations, b \in EmbeddingBodies}
  \cup {Request(m, "models", a, NoBody) : m \in {"GET", "POST"}, a \in Authorizations}
  \cup {Request("GET", r, a, NoBody) :
          r \in {"other", "chat/completions"}, a \in Authorizations}
  \cup {Request("OPTIONS", "other", <<>>, NoBody)}

\* Chat requests with every body.
ChatRequests ==
  {Request("POST", "chat/completions", a, b) : a \in Authorizations, b \in ChatBodies}

\* env.GEMINI_API_KEYS after split, trim and filter.
EnvKeyLists == {<<>>, <<"env-key">>}

\* The record kept of a request: the request, the store it found, the
\* credential picked for it and the store right after that, the upstream's
\* outcome (NULL when the upstream was not called) and the result.
Served(request, keys, cfg, usage, t, upstream, out) ==
  [request |-> request, at |-> t, keys_before |-> keys, cfg_before |-> cfg,
   usage_before |-> usage,
   source |-> out.cred.source, id |-> out.cred.id, outcome |-> out.cred.outcome,
   keys_selected |-> out.cred.keys, cfg_selected |-> out.cred.cfg,
   called |-> out.res.called, key |-> out.res.key,
   upstream |-> IF out.res.called THEN upstream ELSE NULL,
   status |-> out.res.status, body |-> out.res.body]

NotServed(keys, cfg) ==
  [request |-> Request("none", "none", <<>>, NoBody), at |-> 0,
   keys_before |-> keys, cfg_before |-> cfg, usage_before |-> <<>>,
   source |-> "none", id |-> NULL, outcome |-> "none", keys_selected |-> keys,
   cfg_selected |-> cfg,
   called |-> FALSE, key |-> "", upstream |-> NULL, status |-> 0,
   body |-> "none"]

\* ========================================================= calls in flight
\* (src/src/db-manager.mjs)  Every await of the manager is one statement on
\* the store; the statements of calls that run for different requests
\* interleave.  A call in flight is [kind, pc, ...]: kind is "select"
\* (getNextApiKey with the default strategy) or "error" (recordError), pc the
\* statement it makes next, and the rest what it holds in its variables:
\*   allKeys, availableKeys  the ids of the rows it read;
\*   savedKeysCount, currentIndex, keyInfo  the values it read;
\*   key, outcome  what it returns or throws;
\*   id  the argument of recordError;
\*   written  the cursor it wrote;
\*   beside   the calls that had read the cursor and not yet written it
\*            when this one wrote it (their places among the calls).
\* cooldown_hours and max_errors_threshold are written by no call, so their
\* reads are taken together with the statement that follows them.
NoTask ==
  [kind |-> "none", pc |-> "done", allKeys |-> <<>>, availableKeys |-> <<>>,
   savedKeysCount |-> NULL, currentIndex |-> NULL, keyInfo |-> NULL,
   key |-> NULL, outcome |-> "none", id |-> NULL,
   written |-> NULL, beside |-> {}]

\* A call of getNextApiKey() and one of recordError(id), before their first
\* statement.
SelectTask == [NoTask EXCEPT !.kind = "select", !.pc = "pool"]

ErrorTask(id) == [NoTask EXCEPT !.kind = "error", !.pc = "keyInfo", !.id = id]

\* What a statement leaves: the call, the table and the configuration.
After(task, keys, cfg) == [task |-> task, keys |-> keys, cfg |-> cfg]

\* getNextApiKey up to the strategy switch: the query and the filter, and
\* the two throws.
ReadPool(task, keys, cfg, t) ==
  LET allKeys == AllKeysOf(keys, cfg, t)
      availableKeys == AvailableOf(keys, cfg, t)
  IN After([task EXCEPT !.allKeys = allKeys, !.availableKeys = availableKeys,
                        !.pc = IF Len(availableKeys) = 0 THEN "done" ELSE "count",
                        !.outcome = IF Len(allKeys) = 0 THEN "PoolExhausted"
                                    ELSE IF Len(availableKeys) = 0
                                      THEN "AllKeysExhausted"
                                    ELSE "none"],
           keys, cfg)

\* validateRoundRobinIndex: getConfig('round_robin_keys_count')
ReadCount(task, keys, cfg) ==
  LET savedKeysCount == getConfig(cfg, "round_robin_keys_count") IN
  After([task EXCEPT !.savedKeysCount = savedKeysCount,
                     !.pc = IF savedKeysCount # NULL
                               /\ savedKeysCount # Len(task.allKeys)
                              THEN "reset"
                            ELSE IF savedKeysCount = NULL THEN "setCount"
                            ELSE "index"],
        keys, cfg)

\* validateRoundRobinIndex: resetRoundRobinIndex()
WriteReset(task, keys, cfg) ==
  After([task EXCEPT !.pc = "setCount"], keys, resetRoundRobinIndex(cfg))

\* validateRoundRobinIndex: setConfig('round_robin_keys_count', ...)
WriteCount(task, keys, cfg) ==
  After([task EXCEPT !.pc = "index"], keys,
        setConfig(cfg, "round_robin_keys_count", Len(task.allKeys)))

\* (A selection that starts its scan at the first row whatever the cursor.)
ReadIndex_FromFirst(task, keys, cfg) ==
  LET currentIndex == getConfig(cfg, "round_robin_index") IN
  After([task EXCEPT !.currentIndex = 0,
                     !.pc = IF currentIndex = NULL THEN "initIndex" ELSE "commit"],
        keys, cfg)

\* selectRoundRobinFromAvailable: getConfig('round_robin_index')
ReadIndex(task, keys, cfg) ==
  LET currentIndex == getConfig(cfg, "round_robin_index") IN
  After([task EXCEPT !.currentIndex = IF currentIndex = NULL THEN 0
                                       ELSE currentIndex,
                     !.pc = IF currentIndex = NULL THEN "initIndex" ELSE "commit"],
        keys, cfg)

\* selectRoundRobinFromAvailable: the two setConfig of the first use.
InitIndex(task, keys, cfg) ==
  After([task EXCEPT !.pc = "initCount"], keys,
        setConfig(cfg, "round_robin_index", 0))

InitCount(task, keys, cfg) ==
  After([task EXCEPT !.pc = "commit"], keys,
        setConfig(cfg, "round_robin_keys_count", Len(task.allKeys)))

\* (A cursor moved on from the value the store holds at the write.)
CommitIndex_Atomic(task, keys, cfg, rnd, beside) ==
  LET scan == ScanFrom(task.allKeys, task.availableKeys, task.currentIndex, 0)
      selectedKey == IF scan.key = NULL THEN task.availableKeys[rnd + 1]
                     ELSE scan.key
      nextIndex == NextIndex(getConfig(cfg, "round_robin_index"),
                             Len(task.allKeys))
  IN After([task EXCEPT !.key = selectedKey, !.written = nextIndex,
                        !.beside = beside, !.pc = "update"],
           keys, setConfig(cfg, "round_robin_index", nextIndex))

\* selectRoundRobinFromAvailable: the scan over the rows read, and the
\* setConfig of the cursor one past the position the scan stopped at.
CommitIndex(task, keys, cfg, rnd, beside) ==
  LET scan == ScanFrom(task.allKeys, task.availableKeys, task.currentIndex, 0)
      selectedKey == IF scan.key = NULL THEN task.availableKeys[rnd + 1]
                     ELSE scan.key
      nextIndex == NextIndex(scan.currentIndex, Len(task.allKeys))
  IN After([task EXCEPT !.key = selectedKey, !.written = nextIndex,
                        !.beside = beside, !.pc = "update"],
           keys, setConfig(cfg, "round_robin_index", nextIndex))

\* getNextApiKey: the on-select UPDATE, and the return.
WriteSelected(task, keys, cfg, t) ==
  After([task EXCEPT !.pc = "done", !.outcome = "ok"],
        UpdateOnSelect(keys, task.key, t), cfg)

\* The draws the scan of a call can make: none unless it finds no key.
DrawsOf(task) ==
  IF task.kind = "select" /\ task.pc = "commit"
       /\ ScanFrom(task.allKeys, task.availableKeys, task.currentIndex, 0).key = NULL
    THEN 0 .. Len(task.availableKeys) - 1
    ELSE {0}

\* recordError: SELECT error_count ... WHERE id = ?
ReadKeyInfo(task, keys, cfg) ==
  After([task EXCEPT !.keyInfo = keys[task.id].error_count, !.pc = "count"],
        keys, cfg)

\* (An error count written from the value read before.)
WriteError_FromKeyInfo(task, keys, cfg, t) ==
  After([task EXCEPT !.pc = "done", !.outcome = "ok"],
        [keys EXCEPT ![task.id] =
           [@ EXCEPT !.error_count = task.keyInfo + 1, !.updated_at = t]],
        cfg)

\* recordError: the UPDATE, and the return.
WriteError(task, keys, cfg, t) ==
  After([task EXCEPT !.pc = "done", !.outcome = "ok"],
        recordError(keys, task.id, t), cfg)

\* The next statement of a call in flight; beside are the calls that hold a
\* cursor they read and have not written.
Statement(task, keys, cfg, rnd, t, beside) ==
  IF task.kind = "select"
    THEN CASE task.pc = "pool" -> ReadPool(task, keys, cfg, t)
           [] task.pc = "count" -> ReadCount(task, keys, cfg)
           [] task.pc = "reset" -> WriteReset(task, keys, cfg)
           [] task.pc = "setCount" -> WriteCount(task, keys, cfg)
           [] task.pc = "index" -> ReadIndex(task, keys, cfg)
           [] task.pc = "initIndex" -> InitIndex(task, keys, cfg)
           [] task.pc = "initCount" -> InitCount(task, keys, cfg)
           [] task.pc = "commit" -> CommitIndex(task, keys, cfg, rnd, beside)
           [] OTHER -> WriteSelected(task, keys, cfg, t)
    ELSE CASE task.pc = "keyInfo" -> ReadKeyInfo(task, keys, cfg)
           [] OTHER -> WriteError(task, keys, cfg, t)

\* What is kept of the calls made with calls in flight: the calls, how many
\* were started, how many selections that returned each credential have
\* returned, how many errors were recorded on each since they were last
\* reset, when each was last disabled (NULL when it was not) and how many
\* selections have returned it since, how many selections have chosen a
\* credential since each was chosen or the start, and the table at the
\* start.
Flight(tasks, keys) ==
  [tasks |-> tasks, started |-> 0,
   returned |-> [id \in DOMAIN keys |-> 0],
   recorded |-> [id \in DOMAIN keys |-> 0],
   disabled |-> [id \in DOMAIN keys |-> [time |-> NULL, served |-> 0]],
   waited |-> [id \in DOMAIN keys |-> 0],
   initial |-> keys]

\* No call is in flight.
NoFlight(keys) == Flight([slot \in 1 .. MaxInFlight |-> NoTask], keys)

\* The calls that hold a cursor they read and have not written.
HoldingCursor(tasks) ==
  {slot \in DOMAIN tasks :
     tasks[slot].kind = "select"
       /\ tasks[slot].pc \in {"initIndex", "initCount", "commit"}}

\* What a statement adds to what is kept.
Kept(fl, slot, task) ==
  LET selected == task.kind = "select" /\ task.pc = "done" /\ task.outcome = "ok"
      recorded == task.kind = "error" /\ task.pc = "done"
      chosen == task.kind = "select" /\ fl.tasks[slot].pc = "commit"
  IN [fl EXCEPT
        !.tasks[slot] = task,
        !.returned = IF selected THEN [@ EXCEPT ![task.key] = @ + 1] ELSE @,
        !.disabled = IF selected THEN [@ EXCEPT ![task.key].served = @ + 1] ELSE @,
        !.waited = IF chosen
                     THEN [id \in DOMAIN @ |-> IF id = task.key THEN 0 ELSE @[id] + 1]
                     ELSE @,
        !.recorded = IF recorded THEN [@ EXCEPT ![task.id] = @ + 1] ELSE @]

\* ------------------------------------------------------------------- Init
ConfigKeys == {"cooldown_hours", "max_errors_threshold", "error_reset_interval",
               "enable_usage_tracking", "rotation_strategy",
               "round_robin_index", "round_robin_keys_count"}

\* A row as INSERT leaves it (schema defaults), enabled or disabled by the
\* administrator.
NewRow(active) ==
  [is_active |-> active, last_used_at |-> NULL, updated_at |-> 0,
   total_requests |-> 0, error_count |-> 0]

\* The record kept of a call.
Called(op, strategy, id, outcome, keys, cfg, t) ==
  [op |-> op, strategy |-> strategy, id |-> id, outcome |-> outcome,
   at |-> t, keys_before |-> keys, cfg_before |-> cfg]

\* The pool as the administrator filled it: n credentials, the last of them
\* possibly disabled by hand.
PoolOf(n, lastActive) == [id \in 1 .. n |-> NewRow(id < n \/ lastActive)]

PoolInit ==
  /\ \E n \in 1 .. MaxKeys, lastActive \in BOOLEAN :
       api_keys = PoolOf(n, lastActive)
  /\ \E c \in CooldownChoices, th \in ThresholdChoices, ri \in ResetIntervalChoices :
       pool_config = [k \in ConfigKeys |->
                        CASE k = "cooldown_hours" -> c
                          [] k = "max_errors_threshold" -> th
                          [] k = "error_reset_interval" -> ri
                          [] k = "enable_usage_tracking" -> 1
                          [] k = "rotation_strategy" -> "round_robin"
                          [] OTHER -> NULL]
  /\ now = 0
  /\ last = Called("none", "none", NULL, "none", api_keys, pool_config, 0)
  /\ run = [ids |-> <<>>, full |-> FALSE]
  /\ calls = 0
  /\ twin = [keys |-> api_keys, cfg |-> pool_config, self |-> NewInstance,
             id |-> NULL, outcome |-> "none"]
  /\ flight = NoFlight(api_keys)

\* No response is being streamed.
NoStream == [text |-> <<>>, offset |-> 0, this |-> NewFramer,
             partial |-> FALSE, closed |-> TRUE]

NoPipe ==
  [this |-> NewPipe(FALSE), lines |-> <<>>, out |-> <<>>, closed |-> TRUE,
   errored |-> FALSE]

\* The body made for the upstream, before it is made.
NotAsked == [none |-> TRUE]

\* The body answered, before it is.
NotAnswered ==
  [kind |-> "none", choices |-> <<>>, usage |-> "undefined",
   totals |-> transformUsage(NoUsageMetadata)]

NoTurn ==
  [messages |-> <<>>, body |-> NotAsked, data |-> Reply(FALSE, <<>>, FALSE, FALSE),
   completion |-> NotAnswered, stage |-> "none"]

\* No request was served yet.
Init ==
  /\ PoolInit
  /\ api_key_usage = <<>>
  /\ env = <<>>
  /\ served = NotServed(api_keys, pool_config)
  /\ requests = 0
  /\ framer = NoStream
  /\ pipe = NoPipe
  /\ turn = NoTurn

\* ---------------------------------------------------------------- actions
Pool == DOMAIN api_keys

IsRoundRobin(strategy) == strategy \notin {"least_used", "random"}

\* One more call is made.
Call == calls < MaxCalls /\ calls' = calls + 1

GetNextApiKey(strategy, rnd) ==
  LET r == getNextApiKey(NewInstance, api_keys, pool_config, strategy, rnd, now)
      r2 == getNextApiKey(twin.self, twin.keys, twin.cfg, strategy, rnd, now)
  IN
  /\ Call
  /\ rnd \in RandomDraws(api_keys, pool_config, strategy, now)
  /\ api_keys' = r.keys
  /\ pool_config' = r.cfg
  /\ last' = Called("getNextApiKey", strategy, r.key, r.outcome,
                     api_keys, pool_config, now)
  /\ run' = IF IsRoundRobin(strategy) /\ r.outcome = "ok"
              THEN [ids |-> Append(run.ids, r.key),
                    full |-> IF run.ids = <<>>
                               THEN SeqToSet(AvailableOf(api_keys, pool_config, now)) = Pool
                               ELSE run.full]
              ELSE run
  /\ twin' = [keys |-> r2.keys, cfg |-> r2.cfg, self |-> r2.self,
              id |-> r2.key, outcome |-> r2.outcome]
  /\ UNCHANGED <<now, gateway, streaming>>

RecordError(id) ==
  /\ Call
  /\ api_keys' = recordError(api_keys, id, now)
  /\ last' = Called("recordError", "none", id, "ok", api_keys, pool_config, now)
  /\ twin' = [twin EXCEPT !.keys = recordError(twin.keys, id, now)]
  /\ run' = [ids |-> <<>>, full |-> FALSE]
  /\ UNCHANGED <<pool_config, now, gateway, streaming>>

DisableKeyOnRateLimit(id) ==
  /\ Call
  /\ api_keys' = disableKeyOnRateLimit(api_keys, id, now)
  /\ last' = Called("disableKeyOnRateLimit", "none", id, "ok",
                     api_keys, pool_config, now)
  /\ run' = [ids |-> <<>>, full |-> FALSE]
  /\ twin' = [twin EXCEPT !.keys = disableKeyOnRateLimit(twin.keys, id, now)]
  /\ UNCHANGED <<pool_config, now, gateway, streaming>>

ResetExpiredErrors ==
  /\ Call
  /\ api_keys' = resetExpiredErrors(api_keys, pool_config, now)
  /\ last' = Called("resetExpiredErrors", "none", NULL, "ok",
                     api_keys, pool_config, now)
  /\ twin' = [twin EXCEPT !.keys = resetExpiredErrors(twin.keys, twin.cfg, now)]
  /\ UNCHANGED <<pool_config, now, run, gateway, streaming>>

\* The clock advances by one hour.
Tick ==
  /\ now < MaxHours * HourSeconds
  /\ now' = now + HourSeconds
  /\ UNCHANGED <<api_keys, pool_config, last, run, calls, twin, gateway,
               streaming>>

Next ==
  \/ \E strategy \in Strategies, rnd \in 0 .. MaxKeys - 1 : GetNextApiKey(strategy, rnd)
  \/ \E id \in Pool : RecordError(id)
  \/ \E id \in Pool : DisableKeyOnRateLimit(id)
  \/ ResetExpiredErrors
  \/ Tick

Spec == Init /\ [][Next]_vars

\* ---------------------------------------------------- interleaved calls
\* A request starts a call, in the first free place: a selection, or
\* recordError for a credential.  The place is forgotten by the calls that
\* wrote the cursor beside the call that had it.
Begin(slot, task, most) ==
  /\ flight.started < most
  /\ flight.tasks[slot].pc = "done"
  /\ \A other \in 1 .. slot - 1 : flight.tasks[other].pc # "done"
  /\ flight' = [flight EXCEPT
                  !.tasks = [s \in DOMAIN @ |->
                               IF s = slot THEN task
                               ELSE [@[s] EXCEPT !.beside = @ \ {slot}]],
                  !.started = @ + 1]
  /\ UNCHANGED <<api_keys, pool_config, now, last, run, calls, twin, gateway,
                 framer, pipe, turn>>

Start(slot, task) == Begin(slot, task, MaxStarts)

\* A call in flight makes its next statement.
Proceed(slot, rnd) ==
  LET task == flight.tasks[slot]
      r == Statement(task, api_keys, pool_config, rnd, now,
                     HoldingCursor(flight.tasks) \ {slot})
  IN /\ task.pc # "done"
     /\ rnd \in DrawsOf(task)
     /\ api_keys' = r.keys
     /\ pool_config' = r.cfg
     /\ flight' = Kept(flight, slot, r.task)
     /\ UNCHANGED <<now, last, run, calls, twin, gateway, framer, pipe, turn>>

\* disableKeyOnRateLimit(id), whose one write is one statement.
Disable(id) ==
  /\ flight.started < MaxStarts
  /\ api_keys' = disableKeyOnRateLimit(api_keys, id, now)
  /\ flight' = [flight EXCEPT !.started = @ + 1,
                              !.disabled[id] = [time |-> now, served |-> 0]]
  /\ UNCHANGED <<pool_config, now, last, run, calls, twin, gateway,
                 framer, pipe, turn>>

\* resetExpiredErrors, whose one write is one statement.
Sweep ==
  /\ flight.started < MaxStarts
  /\ api_keys' = resetExpiredErrors(api_keys, pool_config, now)
  /\ flight' = [flight EXCEPT
                  !.started = @ + 1,
                  !.recorded = [id \in DOMAIN @ |->
                                  IF ErrorsExpired(api_keys[id],
                                       getConfig(pool_config, "error_reset_interval"),
                                       now)
                                    THEN 0 ELSE @[id]]]
  /\ UNCHANGED <<pool_config, now, last, run, calls, twin, gateway,
                 framer, pipe, turn>>

\* The clock counts hours and a call takes far less: the hour turns between
\* calls.
Quiet == \A slot \in 1 .. MaxInFlight : flight.tasks[slot].pc = "done"

TickBetweenCalls == Quiet /\ Tick

ConcurrentInit == Init

ConcurrentNext ==
  \/ \E slot \in 1 .. MaxInFlight : Start(slot, SelectTask)
  \/ \E slot \in 1 .. MaxInFlight, id \in Pool : Start(slot, ErrorTask(id))
  \/ \E slot \in 1 .. MaxInFlight, rnd \in 0 .. MaxKeys - 1 : Proceed(slot, rnd)
  \/ \E id \in Pool : Disable(id)
  \/ Sweep
  \/ TickBetweenCalls

ConcurrentSpec == ConcurrentInit /\ [][ConcurrentNext]_vars

\* ------------------------------------------------- selections that go on
\* A pool whose credentials are all enabled, on which requests keep starting
\* selections and nothing else is called.
FairInit == Init /\ \A id \in Pool : api_keys[id].is_active

StartSelection(slot) == Begin(slot, SelectTask, MaxSelections)

FairNext ==
  \/ \E slot \in 1 .. MaxInFlight : StartSelection(slot)
  \/ \E slot \in 1 .. MaxInFlight, rnd \in 0 .. MaxKeys - 1 : Proceed(slot, rnd)

\* A statement given to the store returns, and requests keep arriving while
\* there are any.
FairSpec ==
  /\ FairInit
  /\ [][FairNext]_vars
  /\ \A slot \in 1 .. MaxInFlight :
       WF_vars(\E rnd \in 0 .. MaxKeys - 1 : Proceed(slot, rnd))
  /\ WF_vars(\E slot \in 1 .. MaxInFlight : StartSelection(slot))

\* ---------------------------------------------------------------- gateway
\* The deployment may have env.GEMINI_API_KEYS set.
GatewayInit ==
  /\ PoolInit
  /\ api_key_usage = <<>>
  /\ env \in EnvKeyLists
  /\ served = NotServed(api_keys, pool_config)
  /\ requests = 0
  /\ framer = NoStream
  /\ pipe = NoPipe
  /\ turn = NoTurn

\* What serving a request leaves in the store, out being what fetch gives.
Respond(request, upstream, out) ==
  /\ requests < MaxRequests
  /\ requests' = requests + 1
  /\ api_keys' = out.res.keys
  /\ pool_config' = out.cred.cfg
  /\ api_key_usage' = out.res.usage
  /\ served' = Served(request, api_keys, pool_config, api_key_usage, now,
                      upstream, out)
  /\ UNCHANGED <<now, env, last, run, calls, twin, streaming>>

\* The gateway serves one request; the upstream, when it is called, answers
\* with upstream.
Fetch(request, upstream, rnd, index) ==
  Respond(request, upstream,
          fetch(request, env, api_keys, pool_config, api_key_usage, upstream,
                rnd, index, now))

\* The outcomes the upstream may have for a request: any, when the request
\* gets as far as the upstream call.
OutcomesFor(request) ==
  IF fetch(request, env, api_keys, pool_config, api_key_usage, 200, 0, 0,
           now).res.called
    THEN UpstreamOutcomes ELSE {200}

\* The indices Math.random may give into env.GEMINI_API_KEYS.
EnvDraws == IF Len(env) > 0 THEN 0 .. Len(env) - 1 ELSE {0}

\* The requests that may still arrive, of a set of requests.
Arriving(set) == IF requests < MaxRequests THEN set ELSE {}

\* POST /admin/config with key rotation_strategy: setConfig stores the value.
\* (One of the three documented values, and not the stored one.)
SetRotationStrategy(value) ==
  /\ requests < MaxRequests
  /\ value \in {"round_robin", "least_used", "random"}
  /\ value # getConfig(pool_config, "rotation_strategy")
  /\ pool_config' = setConfig(pool_config, "rotation_strategy", value)
  /\ UNCHANGED <<api_keys, now, last, run, calls, twin, api_key_usage, env,
                 served, requests, streaming>>

GatewayNext ==
  \/ \E value \in Strategies : SetRotationStrategy(value)
  \/ \E request \in Arriving(Requests) :
       \E upstream \in OutcomesFor(request),
          rnd \in RandomDraws(api_keys, pool_config, "round_robin", now),
          index \in EnvDraws :
         Fetch(request, upstream, rnd, index)
  \/ Tick

GatewaySpec == GatewayInit /\ [][GatewayNext]_vars

\* The gateway serving chat requests only.
ChatNext ==
  \E request \in Arriving(ChatRequests) :
    \E upstream \in OutcomesFor(request),
       rnd \in RandomDraws(api_keys, pool_config, "round_robin", now),
       index \in EnvDraws :
      Fetch(request, upstream, rnd, index)

ChatSpec == GatewayInit /\ [][ChatNext]_vars

\* ------------------------------------------------------ streaming response
\* The store while a response is streamed: one credential, no request.
StoreIdle ==
  /\ PoolInit
  /\ api_keys = PoolOf(1, TRUE)
  /\ api_key_usage = <<>>
  /\ env = <<>>
  /\ served = NotServed(api_keys, pool_config)
  /\ requests = 0

\* One streaming response: the upstream sends some text.
FramerInit ==
  /\ StoreIdle
  /\ \E text \in UpstreamTexts :
       framer = [text |-> text, offset |-> 0, this |-> NewFramer,
                 partial |-> FALSE, closed |-> FALSE]
  /\ pipe = NoPipe
  /\ turn = NoTurn

\* The next n characters arrive as one chunk.
ParseStream(n) ==
  /\ ~framer.closed
  /\ n \in 1 .. Len(framer.text) - framer.offset
  /\ LET chunk == SubSeq(framer.text, framer.offset + 1, framer.offset + n)
         this == parseStream(framer.this, chunk)
     IN framer' = [framer EXCEPT !.offset = @ + n, !.this = this,
                                 !.partial = @ \/ (/\ framer.this.buffer # <<>>
                                                  /\ this.events # framer.this.events)]
  /\ UNCHANGED <<api_keys, pool_config, now, last, run, calls, twin, gateway, pipe, turn,
               flight>>

\* The upstream closes after its last chunk.
ParseStreamFlush ==
  /\ ~framer.closed
  /\ framer.offset = Len(framer.text)
  /\ framer' = [framer EXCEPT !.this = parseStreamFlush(@), !.closed = TRUE]
  /\ UNCHANGED <<api_keys, pool_config, now, last, run, calls, twin, gateway, pipe, turn,
               flight>>

FramerNext ==
  \/ \E n \in 1 .. MaxPieces * Len(DataPrefix) : ParseStream(n)
  \/ ParseStreamFlush

FramerSpec == FramerInit /\ [][FramerNext]_vars

\* One streaming response, from the re-emitter on: the lines come from the
\* framer one by one.
StreamInit ==
  /\ StoreIdle
  /\ framer = NoStream
  /\ turn = NoTurn
  /\ \E streamIncludeUsage \in BOOLEAN :
       pipe = [this |-> NewPipe(streamIncludeUsage), lines |-> <<>>,
               out |-> <<>>, closed |-> FALSE, errored |-> FALSE]

\* The re-emitter is given the next line.
ToOpenAiStream(line) ==
  /\ ~pipe.closed
  /\ Len(pipe.lines) < MaxEvents
  /\ LET r == toOpenAiStream(pipe.this, line, Len(pipe.lines) + 1) IN
     pipe' = [pipe EXCEPT !.this = r.this, !.lines = Append(@, line),
                          !.out = @ \o r.given]
  /\ UNCHANGED <<api_keys, pool_config, now, last, run, calls, twin, gateway, framer, turn,
               flight>>

\* parseStreamFlush found a remainder: this.shared.is_buffers_rest = true.
SharedIsBuffersRest ==
  /\ ~pipe.closed
  /\ ~pipe.this.is_buffers_rest
  /\ pipe' = [pipe EXCEPT !.this.is_buffers_rest = TRUE]
  /\ UNCHANGED <<api_keys, pool_config, now, last, run, calls, twin, gateway, framer, turn,
               flight>>

\* The stream of lines closes.
ToOpenAiStreamFlush ==
  /\ ~pipe.closed
  /\ LET r == toOpenAiStreamFlush(pipe.this, Len(pipe.lines) + 1) IN
     pipe' = [pipe EXCEPT !.out = @ \o r.given, !.closed = TRUE,
                          !.errored = r.thrown]
  /\ UNCHANGED <<api_keys, pool_config, now, last, run, calls, twin, gateway, framer, turn,
               flight>>

StreamNext ==
  \/ \E line \in Lines : ToOpenAiStream(line)
  \/ SharedIsBuffersRest
  \/ ToOpenAiStreamFlush

StreamSpec == StreamInit /\ [][StreamNext]_vars

\* ------------------------------------------- completion that is not streamed
\* Conversations with tool calls and their results: a call and its result,
\* two calls answered in their order, in the other order and in part, a
\* call whose id does not start with "call_", a system message before, a
\* user message after; and the plain question.
CallNamed(id, name) == [id |-> id, type |-> "function", name |-> name, json |-> TRUE]

Says(role) == Message(role, StringContent(FALSE), NoToolCalls, "")

Asks(tool_calls) ==
  Message("assistant", NoContent, [present |-> TRUE, list |-> tool_calls], "")

Answers(tool_call_id) ==
  Message("tool", StringContent(TRUE), NoToolCalls, tool_call_id)

ToolConversations ==
  LET one == <<CallNamed("call_1", "f")>>
      two == <<CallNamed("call_1", "f"), CallNamed("call_2", "g")>>
      own == <<CallNamed("fn_1", "f"), CallNamed("call_2", "g")>>
  IN {<<Says("user"), Asks(one), Answers("call_1")>>,
      <<Says("user"), Asks(own), Answers("call_2"), Answers("fn_1")>>,
      <<Says("user"), Asks(two), Answers("call_1"), Answers("call_2")>>,
      <<Says("user"), Asks(two), Answers("call_2"), Answers("call_1")>>,
      <<Says("user"), Asks(two), Answers("call_2")>>,
      <<Says("system"), Says("user"), Asks(one), Answers("call_1")>>,
      <<Says("user"), Asks(one), Answers("call_1"), Says("user")>>}

\* One chat completion that is not streamed: the request and the reply the
\* upstream will give it.
RoundTripInit ==
  /\ StoreIdle
  /\ framer = NoStream
  /\ pipe = NoPipe
  /\ \E messages \in ToolConversations \cup {Question}, data \in Replies,
        counters \in UsageMetadatas :
       turn = [messages |-> messages, body |-> NotAsked,
               data |-> IF data.usageMetadata
                          THEN [data EXCEPT !.counters = counters] ELSE data,
               completion |-> NotAnswered, stage |-> "new"]

\* handleCompletions translates the request.
TransformRequest ==
  /\ turn.stage = "new"
  /\ turn' = [turn EXCEPT
                !.body = transformRequest(ChatBody(TRUE, turn.messages, "", FALSE)),
                !.stage = "asked"]
  /\ UNCHANGED <<api_keys, pool_config, now, last, run, calls, twin, gateway, framer, pipe,
               flight>>

\* The upstream replied ok, and handleCompletions makes the body it answers.
ProcessCompletionsResponse ==
  /\ turn.stage = "asked"
  /\ ~IsError(turn.body)
  /\ turn' = [turn EXCEPT !.completion = AssembleBody(turn.data),
                          !.stage = "answered"]
  /\ UNCHANGED <<api_keys, pool_config, now, last, run, calls, twin, gateway, framer, pipe,
               flight>>

RoundTripNext ==
  \/ TransformRequest
  \/ ProcessCompletionsResponse

RoundTripSpec == RoundTripInit /\ [][RoundTripNext]_vars

\* ================================================================= claims
\* The ids of n consecutive entries of ids, from entry i.
Window(ids, i, n) == {ids[j] : j \in i .. i + n - 1}

\* Every n consecutive entries of ids are n different ids covering the pool.
EachOnce(ids, n) ==
  \A i \in 1 .. Len(ids) - n + 1 : Window(ids, i, n) = Pool

\* C1 (as stated): for any pool of N >= 1 credentials, N consecutive
\* round-robin selections with no intervening disablement return each
\* credential id exactly once.
\* It is stated here for pools whose credentials are all enabled, the reading
\* most favourable to it.
C1_Original ==
  (\A id \in Pool : api_keys[id].is_active) => EachOnce(run.ids, Cardinality(Pool))

\* C1 (amended): when all N credentials of the pool are available (eligible
\* and below the error threshold) at the first selection, N consecutive
\* round-robin selections with no disablement and no recorded error in
\* between return each credential id exactly once.
C1_RoundRobinCoversPool == run.full => EachOnce(run.ids, Cardinality(Pool))

C1_Witness ==
  /\ Cardinality(Pool) >= 2
  /\ run.full
  /\ Len(run.ids) >= Cardinality(Pool)

\* ------------------------------------------------ the claims' vocabulary
\* The last call was a selection that returned a credential.
Selected == last.op = "getNextApiKey" /\ last.outcome = "ok"

\* The configuration the last call ran under.
CooldownOfCall == CooldownHours(last.cfg_before)
ThresholdOfCall == MaxErrorsThreshold(last.cfg_before)

\* The eligibility window as the specification words it: active, or inactive
\* with last-used set and now - last-used >= the cooldown.
InWindow(row, hours, t) ==
  \/ row.is_active
  \/ /\ ~row.is_active
     /\ row.last_used_at # NULL
     /\ t - row.last_used_at >= hours * HourSeconds

\* The credentials the last call found eligible, and those it found available.
EligibleAtCall ==
  {id \in DOMAIN last.keys_before :
     InWindow(last.keys_before[id], CooldownOfCall, last.at)}
AvailableAtCall ==
  {id \in EligibleAtCall : last.keys_before[id].error_count < ThresholdOfCall}

\* C2: whatever the strategy, a credential returned by a selection is in the
\* available set the call read: inside the eligibility window and with
\* error_count strictly below the threshold.
C2_SelectedIsAvailable == Selected => last.id \in AvailableAtCall

\* An unknown strategy name returned a credential that had been inactive,
\* while another credential of the pool was not available.
C2_Witness ==
  /\ Selected
  /\ last.strategy = "unknown"
  /\ ~last.keys_before[last.id].is_active
  /\ \E id \in Pool : id \notin AvailableAtCall

\* C3: a selection that follows disableKeyOnRateLimit(id) before the cooldown
\* has elapsed does not return id, and fails when id is the only credential.
C3_RateLimitedNotServed ==
  [][(/\ last.op = "disableKeyOnRateLimit"
      /\ last'.op = "getNextApiKey"
      /\ now - last.at < CooldownHours(pool_config) * HourSeconds)
     => /\ last'.id # last.id
        /\ Pool = {last.id} =>
             last'.outcome \in {"PoolExhausted", "AllKeysExhausted"}]_vars

\* The only credential was rate-limited at the time of the selection that
\* followed, and the selection failed.
C3_Witness ==
  /\ last.op = "getNextApiKey"
  /\ Pool = {1}
  /\ ~last.keys_before[1].is_active
  /\ last.keys_before[1].last_used_at = last.at
  /\ last.outcome = "PoolExhausted"

\* C4: a credential whose error_count has reached the threshold is not
\* returned by a selection although it is eligible by cooldown; and
\* resetExpiredErrors, run when more than the silence interval has passed
\* since the credential's last update, zeroes its error_count, which makes it
\* available again if it is eligible.
C4_ThresholdExcludesResetRestores ==
  /\ Selected =>
       \A id \in EligibleAtCall :
         last.keys_before[id].error_count >= ThresholdOfCall => last.id # id
  /\ last.op = "resetExpiredErrors" =>
       \A id \in Pool :
         (/\ last.keys_before[id].error_count >= ThresholdOfCall
          /\ getConfig(last.cfg_before, "error_reset_interval") # NULL
          /\ last.at - last.keys_before[id].updated_at
               > getConfig(last.cfg_before, "error_reset_interval"))
         => /\ api_keys[id].error_count = 0
            /\ id \in EligibleAtCall =>
                 id \in SeqToSet(AvailableOf(api_keys, pool_config, now))

\* Credential 1 reached the threshold, a later selection passed it over for
\* credential 2, and the sweep then zeroed its count.
C4_Witness ==
  /\ last.op = "resetExpiredErrors"
  /\ Cardinality(Pool) = 2
  /\ last.keys_before[1].error_count >= ThresholdOfCall
  /\ last.keys_before[1].is_active
  /\ api_keys[2].last_used_at # NULL
  /\ api_keys[2].last_used_at > last.keys_before[1].updated_at
  /\ api_keys[2].total_requests = 1
  /\ api_keys[1].error_count = 0

\* C5: a selection fails with PoolExhausted exactly when no credential is in
\* the eligibility window, with AllKeysExhausted exactly when some are but all
\* of them have error_count >= threshold, and returns a credential otherwise.
C5_ExhaustionErrors ==
  last.op = "getNextApiKey" =>
    /\ last.outcome = "PoolExhausted" <=> EligibleAtCall = {}
    /\ last.outcome = "AllKeysExhausted" <=>
         (EligibleAtCall # {} /\ AvailableAtCall = {})
    /\ last.outcome = "ok" <=> AvailableAtCall # {}
    /\ last.outcome = "ok" => last.id \in Pool

\* A selection failed with AllKeysExhausted on a pool that also held a
\* credential outside the eligibility window.
C5_Witness ==
  /\ last.op = "getNextApiKey"
  /\ last.outcome = "AllKeysExhausted"
  /\ \E id \in Pool : id \notin EligibleAtCall

\* The 0-based position of id in the eligible list (ascending ids).
PositionAtCall(id) == Cardinality({j \in EligibleAtCall : j < id})

\* The last call was a round-robin selection that found the recorded
\* eligible count different from the current one.
CountChangedAtCall ==
  /\ Selected
  /\ IsRoundRobin(last.strategy)
  /\ getConfig(last.cfg_before, "round_robin_keys_count") # NULL
  /\ getConfig(last.cfg_before, "round_robin_keys_count") # Cardinality(EligibleAtCall)

\* C6: when the eligible count differs from the one recorded by the previous
\* round-robin selection, the scan of the next round-robin selection starts at
\* position 0 of the eligible list (the cursor is reset to 0), the new count
\* is recorded, and the cursor is left one past the credential returned.
C6_CountChangeResetsCursor ==
  CountChangedAtCall =>
    /\ \A id \in AvailableAtCall : last.id <= id
    /\ getConfig(pool_config, "round_robin_keys_count") = Cardinality(EligibleAtCall)
    /\ getConfig(pool_config, "round_robin_index")
         = (PositionAtCall(last.id) + 1) % Cardinality(EligibleAtCall)

\* The count changed while the cursor stood at a position other than 0 of
\* the new eligible list.
C6_Witness ==
  /\ CountChangedAtCall
  /\ getConfig(last.cfg_before, "round_robin_index") # NULL
  /\ getConfig(last.cfg_before, "round_robin_index") % Cardinality(EligibleAtCall) # 0
  /\ Cardinality(AvailableAtCall) >= 2

C8_SelectionEffect ==
  Selected =>
    api_keys = [last.keys_before EXCEPT ![last.id] =
                  [is_active |-> TRUE,
                   last_used_at |-> last.at,
                   updated_at |-> last.at,
                   total_requests |-> last.keys_before[last.id].total_requests + 1,
                   error_count |-> last.keys_before[last.id].error_count]]

\* The credential returned was inactive, in a pool with other credentials.
C8_Witness ==
  /\ Selected
  /\ ~last.keys_before[last.id].is_active
  /\ api_keys[last.id].is_active
  /\ last.at > 0
  /\ Cardinality(Pool) >= 2

\* A row of api_keys with the given flag and last-used time.
RowUsedAt(active, t) ==
  [is_active |-> active, last_used_at |-> t, updated_at |-> 0,
   total_requests |-> 0, error_count |-> 0]

\* C9: an inactive credential is eligible, with no manual re-enable, exactly
\* when its last_used is set and now - last_used >= the configured cooldown.
\* What a selection shows of it: the eligible count a round-robin selection
\* records, an inactive credential being returned only after its cooldown, and
\* PoolExhausted only when no inactive credential has served its cooldown.
\* With the default cooldown of 24 hours, last_used = now - 25h is eligible
\* and last_used = now - 1h is not.
C9_CooldownEligibility ==
  /\ (Selected /\ IsRoundRobin(last.strategy)) =>
       getConfig(pool_config, "round_robin_keys_count") = Cardinality(EligibleAtCall)
  /\ (Selected /\ ~last.keys_before[last.id].is_active) =>
       /\ last.keys_before[last.id].last_used_at # NULL
       /\ last.at - last.keys_before[last.id].last_used_at
            >= CooldownOfCall * HourSeconds
       /\ api_keys[last.id].is_active
  /\ (last.op = "getNextApiKey" /\ last.outcome = "PoolExhausted") =>
       \A id \in Pool :
         ~(/\ last.keys_before[id].last_used_at # NULL
           /\ last.at - last.keys_before[id].last_used_at
                >= CooldownOfCall * HourSeconds)
  /\ CooldownHours([k \in ConfigKeys |-> NULL]) = 24
  /\ IsEligible(RowUsedAt(FALSE, 0), CooldownHours([k \in ConfigKeys |-> NULL]),
                25 * HourSeconds)
  /\ ~IsEligible(RowUsedAt(FALSE, 24 * HourSeconds),
                 CooldownHours([k \in ConfigKeys |-> NULL]), 25 * HourSeconds)
  /\ ~IsEligible(RowUsedAt(FALSE, NULL),
                 CooldownHours([k \in ConfigKeys |-> NULL]), 25 * HourSeconds)

\* A round-robin selection met one inactive credential past its cooldown,
\* one still inside it and one that was never used.
C9_Witness ==
  /\ Selected
  /\ IsRoundRobin(last.strategy)
  /\ \E a, b, c \in Pool :
       /\ ~last.keys_before[a].is_active /\ a \in EligibleAtCall
       /\ ~last.keys_before[b].is_active /\ b \notin EligibleAtCall
       /\ last.keys_before[b].last_used_at # NULL
       /\ ~last.keys_before[c].is_active /\ last.keys_before[c].last_used_at = NULL

\* C10: recordError(id) adds one to the error_count of id and does not
\* disable it: is_active, last_used_at and total_requests of id, and every
\* field of every other credential, are unchanged (updated_at of id is
\* touched).  A credential at the threshold stays active; it is only left out
\* by the threshold filter of the next selection.
C10_RecordErrorEffect ==
  /\ last.op = "recordError" =>
       api_keys = [last.keys_before EXCEPT ![last.id] =
                     [is_active |-> last.keys_before[last.id].is_active,
                      last_used_at |-> last.keys_before[last.id].last_used_at,
                      updated_at |-> last.at,
                      total_requests |-> last.keys_before[last.id].total_requests,
                      error_count |-> last.keys_before[last.id].error_count + 1]]
  /\ (last.op = "recordError" /\ last.keys_before[last.id].is_active) =>
       LET all == AllKeysOf(api_keys, pool_config, now)
           available == AvailableOf(api_keys, pool_config, now)
       IN /\ last.id \in SeqToSet(all)
          /\ api_keys[last.id].error_count >= MaxErrorsThreshold(pool_config)
               <=> last.id \notin SeqToSet(available)

\* An error took an active credential to the threshold.
C10_Witness ==
  /\ last.op = "recordError"
  /\ api_keys[last.id].is_active
  /\ api_keys[last.id].error_count = MaxErrorsThreshold(pool_config)
  /\ Cardinality(Pool) >= 2

\* C11: disableKeyOnRateLimit(id) sets is_active to false and last_used_at to
\* the current time whatever error_count and is_active of id were, and leaves
\* error_count and total_requests of id as they were (updated_at of id is
\* touched; no other credential changes).
C11_RateLimitedEffect ==
  last.op = "disableKeyOnRateLimit" =>
    /\ ~api_keys[last.id].is_active
    /\ api_keys[last.id].last_used_at = last.at
    /\ api_keys[last.id].error_count = last.keys_before[last.id].error_count
    /\ api_keys[last.id].total_requests = last.keys_before[last.id].total_requests
    /\ api_keys[last.id].updated_at = last.at
    /\ \A id \in Pool \ {last.id} : api_keys[id] = last.keys_before[id]

\* A credential that was already inactive, with errors at the threshold and
\* an older last use, was rate-limited.
C11_Witness ==
  /\ last.op = "disableKeyOnRateLimit"
  /\ ~last.keys_before[last.id].is_active
  /\ last.keys_before[last.id].error_count >= MaxErrorsThreshold(last.cfg_before)
  /\ last.keys_before[last.id].last_used_at # NULL
  /\ last.keys_before[last.id].last_used_at < last.at

\* -------------------------------------------------- claims on the gateway
\* The last request was served with a credential selected from the pool.
ServedFromPool == served.source = "pool"

\* The last request carried a bearer token.
CarriedToken == BearerToken(served.request.authorization) # ""

\* The upstream answered the last request with a status that is not a success.
UpstreamRefused ==
  /\ served.called
  /\ served.upstream # TransportFailure
  /\ ~ResponseOk(served.upstream)

\* C12: when the upstream answers a request made with a pool-selected
\* credential with status 429, the credential is made inactive with
\* last_used_at set to the time of the request (so that later requests do
\* not select it until its cooldown has elapsed).
C12_RateLimitSignalDisables ==
  (ServedFromPool /\ served.called /\ served.upstream = 429) =>
    /\ ~api_keys[served.id].is_active
    /\ api_keys[served.id].last_used_at = served.at

\* C13: a request with a bearer token does not go to the pool: whatever the
\* upstream does, no credential changes (total_requests, last_used_at,
\* is_active, error_count), the round-robin cursor stays and no usage row is
\* added.
C13_BearerBypassesPool ==
  (served.request.method # "none" /\ CarriedToken) =>
    /\ served.source = "bearer"
    /\ served.id = NULL
    /\ api_keys = served.keys_before
    /\ getConfig(pool_config, "round_robin_index")
         = getConfig(served.cfg_before, "round_robin_index")
    /\ getConfig(pool_config, "round_robin_keys_count")
         = getConfig(served.cfg_before, "round_robin_keys_count")
    /\ api_key_usage = served.usage_before
    /\ served.called => served.key = BearerToken(served.request.authorization)

\* After a request that took a credential from the pool and moved the
\* cursor, a request with a bearer token was refused by the upstream.
C13_Witness ==
  /\ CarriedToken
  /\ UpstreamRefused
  /\ requests = 2
  /\ getConfig(pool_config, "round_robin_index") # NULL
  /\ \E id \in Pool : api_keys[id].total_requests > 0

\* C14: when the selection fails for a request without a bearer token, the
\* gateway uses a key of the alternate source or rejects the request; it
\* does not call the upstream without a credential.
C14_NoCallWithoutCredential ==
  (/\ served.outcome \in {"PoolExhausted", "AllKeysExhausted"}
   /\ ~CarriedToken) =>
    \/ served.source = "env" /\ (served.called => served.key # "")
    \/ ~served.called /\ served.status >= 400

\* C15: a status of the upstream that is not a success, for a request served
\* with a pool-selected credential, adds exactly one to the error_count of
\* that credential, and the caller gets the upstream's status and body.
C15_UpstreamErrorRecorded ==
  (ServedFromPool /\ UpstreamRefused) =>
    /\ api_keys[served.id].error_count
         = served.keys_selected[served.id].error_count + 1
    /\ served.keys_selected[served.id].error_count
         = served.keys_before[served.id].error_count
    /\ served.status = served.upstream
    /\ served.body = "upstream"

\* Each of the three endpoints can be the one refused; the witness is the
\* embeddings endpoint refused with status 500.
C15_Witness ==
  /\ ServedFromPool
  /\ UpstreamRefused
  /\ served.upstream = 500
  /\ served.request.route = "embeddings"
  /\ api_keys[served.id].error_count = 1

\* C16: when the upstream call fails (it throws: network failure, timeout),
\* the caller gets an error response and the selected credential is as its
\* selection left it: error_count and is_active are unchanged, as is every
\* other credential.
C16_TransportFailureLeavesHealth ==
  (ServedFromPool /\ served.called /\ served.upstream = TransportFailure) =>
    /\ served.status = 500
    /\ served.body = "message"
    /\ api_keys[served.id].error_count
         = served.keys_selected[served.id].error_count
    /\ api_keys[served.id].is_active = served.keys_selected[served.id].is_active
    /\ api_keys = served.keys_selected

\* The upstream call of a chat request served from the pool threw.
C16_Witness ==
  /\ ServedFromPool
  /\ served.called
  /\ served.upstream = TransportFailure
  /\ served.request.route = "chat/completions"
  /\ api_keys[served.id].total_requests = 1

\* The four defects of a chat request body.
UnknownRole(body) ==
  \E k \in DOMAIN body.messages :
    body.messages[k].role \notin {"system", "user", "assistant", "tool"}

UnknownPartType(body) ==
  \E k \in DOMAIN body.messages :
    /\ body.messages[k].content.kind = "array"
    /\ \E j \in DOMAIN body.messages[k].content.parts :
         body.messages[k].content.parts[j].type
           \notin {"text", "image_url", "input_audio"}

\* The calls a tool result at position k can answer: those of the nearest
\* message before it that is not a tool result.
CallsBefore(messages, k) ==
  LET before == {j \in 1 .. k - 1 : messages[j].role # "tool"} IN
  IF before = {} THEN {}
  ELSE LET j == CHOOSE j \in before : \A i \in before : i <= j IN
       {messages[j].tool_calls.list[c].id : c \in DOMAIN messages[j].tool_calls.list}

UnmatchedToolCall(body) ==
  \E k \in DOMAIN body.messages :
    /\ body.messages[k].role = "tool"
    /\ body.messages[k].tool_call_id \notin CallsBefore(body.messages, k)

UnsupportedFormat(body) ==
  body.response_format.type \notin {"", "text", "json_object", "json_schema"}

InvalidRequest(body) ==
  \/ UnknownRole(body)
  \/ UnknownPartType(body)
  \/ UnmatchedToolCall(body)
  \/ UnsupportedFormat(body)

\* The last request was a chat request whose body reached handleCompletions.
ChatServed ==
  /\ served.request.route = "chat/completions"
  /\ served.request.method = "POST"
  /\ served.request.body.json

\* C17: a chat request with an unknown message role, an unknown content-part
\* type, an unmatched tool-call correlation or an unsupported
\* response_format type is answered with status 400 without an upstream call
\* (hence without a retry), and no credential's error_count changes.
C17_InvalidRequestRejected ==
  (ChatServed /\ InvalidRequest(served.request.body)) =>
    /\ served.status = BadRequest
    /\ ~served.called
    /\ \A id \in Pool : api_keys[id].error_count = served.keys_before[id].error_count

\* ------------------------------------------------ claims on the streaming
\* The framer fed the first n characters of the text as one chunk.
FedAtOnce(text, n) == parseStream(NewFramer, SubSeq(text, 1, n))

\* C18: however the upstream text is cut into chunks, the framer gives the
\* same events as for the text in one chunk: after every chunk its events
\* and buffer are those of the text so far fed at once, and at the end of
\* the stream so are the events with the flushed remainder and its flag.
C18_FramingIgnoresChunking ==
  /\ ~framer.closed => framer.this = FedAtOnce(framer.text, framer.offset)
  /\ framer.closed =>
       framer.this = parseStreamFlush(FedAtOnce(framer.text, Len(framer.text)))

\* A text with an event and a remainder came in chunks, the event in more
\* than one.
C18_Witness ==
  /\ framer.closed
  /\ framer.partial
  /\ framer.this.is_buffers_rest
  /\ Len(framer.this.events) = 2
  /\ framer.this.events[1] = <<"x">>

\* The positions in the output of the chunks that carry a delta for a
\* choice index (a chunk for a blocked prompt carries none: its delta is
\* null).
DeltasFor(index) ==
  {k \in DOMAIN pipe.out :
     /\ pipe.out[k].kind = "chunk"
     /\ \E c \in DOMAIN pipe.out[k].choices :
          /\ pipe.out[k].choices[c].index = index
          /\ ~pipe.out[k].choices[c].delta.isnull}

\* The delta of the chunk at position k for a choice index.
DeltaAt(k, index) ==
  LET c == CHOOSE c \in DOMAIN pipe.out[k].choices :
             pipe.out[k].choices[c].index = index
  IN pipe.out[k].choices[c].delta

EmptyCandidateLines ==
  {k \in DOMAIN pipe.lines :
     /\ pipe.lines[k].kind = "event"
     /\ Len(pipe.lines[k].candidates) = 1
     /\ pipe.lines[k].candidates[1].parts = "none"}

\* C20: an event whose candidate has no text and no call gives no content
\* delta: while the stream is open, all that is given for it is the role
\* announcement of its index.
C20_EmptyDeltaSuppressed ==
  \A k \in EmptyCandidateLines :
    \A j \in DOMAIN pipe.out :
      pipe.out[j].by = k =>
        /\ pipe.out[j].kind = "chunk"
        /\ \A c \in DOMAIN pipe.out[j].choices :
             pipe.out[j].choices[c].delta.role = "assistant"

\* The lines that are an event with a candidate for a choice index.
LinesFor(index) ==
  {k \in DOMAIN pipe.lines :
     /\ pipe.lines[k].kind = "event"
     /\ Len(pipe.lines[k].candidates) = 1
     /\ pipe.lines[k].candidates[1].index = index}

\* The last of them.
LastLineFor(index) == CHOOSE k \in LinesFor(index) : \A j \in LinesFor(index) : j <= k

\* What the flush gave: the items after those given for the lines.
Flushed(k) == pipe.closed /\ pipe.out[k].by = Len(pipe.lines) + 1

C22_UsageAtFlushWhenAsked ==
  \A k \in DOMAIN pipe.out :
    /\ ~Flushed(k) => pipe.out[k].usage # "totals"
    /\ ~pipe.this.streamIncludeUsage => pipe.out[k].usage = "undefined"

\* The caller asked for usage; an event with usage metadata gave chunks with
\* a null usage and the flush gave the totals.
C22_Witness ==
  /\ pipe.closed
  /\ pipe.this.streamIncludeUsage
  /\ \E k \in DOMAIN pipe.out : ~Flushed(k) /\ pipe.out[k].usage = "null"
  /\ \E k \in DOMAIN pipe.out : Flushed(k) /\ pipe.out[k].usage = "totals"

\* The choice indices a stream had an event for.
SeenIndices == {index \in {0, 1} : LinesFor(index) # {}}

\* The positions in the output of what the flush gave.
FlushedItems == {k \in DOMAIN pipe.out : Flushed(k)}

\* C23: when the stream closes after events for some choice indices, the
\* flush gives one chunk for each index seen, with what the last event of
\* that index left (an empty delta and its finish reason), and then the
\* sentinel, as the last item.
C23_OneTerminalPerSeenIndex ==
  (pipe.closed /\ SeenIndices # {}) =>
    /\ ~pipe.errored
    /\ \A index \in SeenIndices :
         /\ Cardinality({k \in FlushedItems : k \in DeltasFor(index)}) = 1
         /\ \A k \in FlushedItems :
              k \in DeltasFor(index) =>
                /\ DeltaAt(k, index) = Delta("", "absent", FALSE)
                /\ pipe.out[k].choices[1].finish_reason =
                     transformCandidatesDelta(
                       pipe.lines[LastLineFor(index)].candidates[1]).finish_reason
    /\ Cardinality({k \in FlushedItems : pipe.out[k].kind = "chunk"}) =
         Cardinality(SeenIndices)
    /\ pipe.out # <<>>
    /\ pipe.out[Len(pipe.out)].kind = "done"
    /\ Cardinality({k \in DOMAIN pipe.out : pipe.out[k].kind = "done"}) = 1

\* The sentinels in the output.
Sentinels == {k \in DOMAIN pipe.out : pipe.out[k].kind = "done"}

\* The output ends with the sentinel, which is nowhere else.
EndsWithSentinel ==
  /\ Sentinels # {}
  /\ Sentinels = {Len(pipe.out)}

MalformedLines == {k \in DOMAIN pipe.lines : pipe.lines[k].kind # "event"}

\* A line as it came, and with the terminator after it.
Verbatim == {"line", "line\n\n"}

\* C25: a line that is no event is passed on as it came (with the
\* terminator after it when the framer gave none): one item is given for
\* it, and its text is the text of the line.
C25_MalformedLinePassedOn ==
  \A k \in MalformedLines :
    /\ Cardinality({j \in DOMAIN pipe.out : pipe.out[j].by = k}) = 1
    /\ \A j \in DOMAIN pipe.out :
         pipe.out[j].by = k =>
           pipe.out[j].kind = "raw" /\ pipe.out[j].text \in Verbatim

RECURSIVE RolesFrom(_, _)
RolesFrom(messages, k) ==
  IF k > Len(messages) THEN <<>>
  ELSE LET role == messages[k].role IN
       (CASE role = "system" -> <<>>
          [] role = "assistant" -> <<"model">>
          [] role = "tool" ->
               IF k > 1 /\ messages[k - 1].role = "tool" THEN <<>>
               ELSE <<"function">>
          [] OTHER -> <<role>>)
       \o RolesFrom(messages, k + 1)

\* The message of the conversation that makes the calls, and the content it
\* becomes.
CallingMessage ==
  CHOOSE k \in DOMAIN turn.messages : turn.messages[k].tool_calls.present

CallingContent == Len(RolesFrom(SubSeq(turn.messages, 1, CallingMessage), 1))

\* The position among the calls of the call with an id.
CallPosition(id) ==
  CHOOSE p \in DOMAIN turn.messages[CallingMessage].tool_calls.list :
    turn.messages[CallingMessage].tool_calls.list[p].id = id

\* The function calls among the parts of the reply's candidate c.
ReplyCalls(c) ==
  SelectSeq(turn.data.candidates[c].parts, LAMBDA part : part.kind = "call")

\* C28: a conversation with a tool call and its result is translated with
\* its messages in order and each result at the position, under the name
\* and with the id of its call; and the reply is mapped back with its
\* function calls in order, under their names and ids (an id the gateway
\* made up for a call without one is sent back as no id).
C28_RoundTripKeepsOrderAndIds ==
  (turn.stage \in {"asked", "answered"} /\ turn.messages \in ToolConversations) =>
    /\ ~IsError(turn.body)
    /\ [n \in DOMAIN turn.body.contents |-> turn.body.contents[n].role]
         = RolesFrom(turn.messages, 1)
    /\ \A k \in DOMAIN turn.messages :
         turn.messages[k].role = "tool" =>
           LET id == turn.messages[k].tool_call_id
               p == CallPosition(id)
               name == turn.messages[CallingMessage].tool_calls.list[p].name
           IN /\ turn.body.contents[CallingContent].parts.items[p - 1]
                   = [functionCall |-> [id |-> UpstreamId(id), name |-> name]]
              /\ p - 1 \in DOMAIN turn.body.contents[CallingContent + 1].parts.items
              /\ turn.body.contents[CallingContent + 1].parts.items[p - 1]
                   = [functionResponse |-> [id |-> UpstreamId(id), name |-> name]]
    /\ (turn.stage = "answered" /\ turn.completion.kind = "completion") =>
         \A c \in DOMAIN turn.completion.choices :
           turn.data.candidates # <<>> =>
             LET tool_calls == turn.completion.choices[c].message.tool_calls IN
             /\ Len(tool_calls) = Len(ReplyCalls(c))
             /\ \A j \in DOMAIN tool_calls :
                  /\ tool_calls[j].name = ReplyCalls(c)[j].name
                  /\ IF ReplyCalls(c)[j].id # ""
                       THEN tool_calls[j].id = ReplyCalls(c)[j].id
                       ELSE UpstreamId(tool_calls[j].id) = ""

\* Two calls were answered in the other order and translated, and a reply
\* with two calls was mapped back.
C28_Witness ==
  /\ turn.stage = "answered"
  /\ turn.messages \in ToolConversations
  /\ Len(turn.messages) = 4
  /\ turn.messages[3].tool_call_id = "call_2"
  /\ turn.messages[4].tool_call_id = "fn_1"
  /\ turn.body.contents[3].parts.items[0].functionResponse.id = "fn_1"
  /\ turn.completion.kind = "completion"
  /\ Len(turn.completion.choices) = 1
  /\ Len(turn.completion.choices[1].message.tool_calls) = 2

\* ------------------------------------------- claims on the tool results
\* A tool result answers a call that a tool result before it, after the
\* same message, has answered.
DuplicatedToolCall(body) ==
  \E k \in DOMAIN body.messages, j \in DOMAIN body.messages :
    /\ j < k
    /\ \A i \in j .. k : body.messages[i].role = "tool"
    /\ body.messages[j].tool_call_id = body.messages[k].tool_call_id

\* In translated contents, every tool result is at the position of a call
\* of the content before, and under its name.
ResultsAtTheirCalls(contents) ==
  \A n \in DOMAIN contents :
    contents[n].role = "function" =>
      \A i \in DOMAIN contents[n].parts.items :
        /\ i # NULL
        /\ n > 1
        /\ i \in DOMAIN contents[n - 1].parts.items
        /\ "functionCall" \in DOMAIN contents[n - 1].parts.items[i]
        /\ contents[n - 1].parts.items[i].functionCall.name
             = contents[n].parts.items[i].functionResponse.name

\* C27: a chat request with a tool result whose call id matches no call, or
\* whose call was already answered, is refused with status 400; and in a
\* request that is translated every tool result is at the position and
\* under the function name of its call.
C27_ToolResultsCorrelated ==
  ChatServed =>
    /\ (\/ UnmatchedToolCall(served.request.body)
        \/ DuplicatedToolCall(served.request.body)) =>
         served.status = BadRequest /\ ~served.called
    /\ LET m == transformMessages(served.request.body.messages) IN
       ~IsError(m) => ResultsAtTheirCalls(m.contents)

\* ------------------------------------------------ claims on the strategy
\* The strategy the configuration asks for when the last request was served.
StoredStrategy == getConfig(served.cfg_before, "rotation_strategy")

\* The last selection is the one strategy makes on the store the request
\* found: the key, the rows and the configuration it leaves.
SelectionFollows(strategy) ==
  \E rnd \in 0 .. MaxKeys - 1 :
    LET r == getNextApiKey(NewInstance, served.keys_before, served.cfg_before,
                           strategy, rnd, served.at)
    IN /\ r.outcome = "ok"
       /\ r.key = served.id
       /\ r.keys = served.keys_selected
       /\ r.cfg = served.cfg_selected

\* C29: the gateway selects with the strategy stored under
\* rotation_strategy: once that is least_used or random, a selection for a
\* request is the selection of that strategy.
C29_StoredStrategyFollowed ==
  (ServedFromPool /\ StoredStrategy \in {"least_used", "random"}) =>
    SelectionFollows(StoredStrategy)

\* ------------------------------------------------ claims on least used
\* The last call was a least-used selection that returned a credential.
SelectedLeastUsed == Selected /\ last.strategy = "least_used"

\* The requests counted on a credential when the last call read the store.
RequestsAtCall(id) == last.keys_before[id].total_requests

\* The values the round-robin cursor can hold.
CursorValues == {NULL} \cup (0 .. MaxKeys)

\* The configuration of the last call with another cursor.
WithCursor(index, count) ==
  [last.cfg_before EXCEPT !["round_robin_index"] = index,
                          !["round_robin_keys_count"] = count]

\* C30: least_used returns the available credential with the smallest
\* total_requests, the earliest in ascending id order among equals; it leaves
\* the round-robin cursor as it was and returns the same credential whatever
\* the cursor holds.
C30_LeastUsedSelection ==
  SelectedLeastUsed =>
    /\ last.id \in AvailableAtCall
    /\ \A id \in AvailableAtCall :
         /\ RequestsAtCall(last.id) <= RequestsAtCall(id)
         /\ RequestsAtCall(id) = RequestsAtCall(last.id) => last.id <= id
    /\ pool_config["round_robin_index"] = last.cfg_before["round_robin_index"]
    /\ pool_config["round_robin_keys_count"]
         = last.cfg_before["round_robin_keys_count"]
    /\ \A index \in CursorValues, count \in CursorValues :
         getNextApiKey(NewInstance, last.keys_before, WithCursor(index, count),
                       "least_used", 0, last.at).key = last.id

\* A least-used selection returned a credential that is not the first of the
\* available ones, among several that share the smallest count, while a
\* cursor was stored.
C30_Witness ==
  /\ SelectedLeastUsed
  /\ \E id \in AvailableAtCall : id < last.id
  /\ \E id \in AvailableAtCall :
       id # last.id /\ RequestsAtCall(id) = RequestsAtCall(last.id)
  /\ last.cfg_before["round_robin_index"] # NULL

\* ------------------------------------------------ claims on the usage
\* A completion was answered with a usage field.
UsageAnswered ==
  /\ turn.stage = "answered"
  /\ turn.completion.kind = "completion"
  /\ turn.completion.usage = "totals"

\* The sum of the counters that are there.
SumOfPresent(counters) ==
  LET present == SelectSeq(counters, LAMBDA c : c # NULL)
  IN IF present = <<>> THEN 0
     ELSE IF Len(present) = 1 THEN present[1]
     ELSE IF Len(present) = 2 THEN present[1] + present[2]
     ELSE present[1] + present[2] + present[3]

\* The completion total is the sum of the counters that are there.
CompletionTokensSummed ==
  UsageAnswered =>
    turn.completion.totals.completion_tokens
      = SumOfPresent(<<turn.data.counters.candidatesTokenCount,
                       turn.data.counters.toolUsePromptTokenCount,
                       turn.data.counters.thoughtsTokenCount>>)

\* C31: each total of the usage answered (completion_tokens, prompt_tokens,
\* total_tokens) is a number, the sum of the upstream counters it is made of
\* that are there, a missing counter counting as zero.
C31_UsageTotalsSumPresent ==
  UsageAnswered =>
    /\ turn.completion.totals.completion_tokens
         = SumOfPresent(<<turn.data.counters.candidatesTokenCount,
                          turn.data.counters.toolUsePromptTokenCount,
                          turn.data.counters.thoughtsTokenCount>>)
    /\ turn.completion.totals.prompt_tokens
         = SumOfPresent(<<turn.data.counters.promptTokenCount>>)
    /\ turn.completion.totals.total_tokens
         = SumOfPresent(<<turn.data.counters.totalTokenCount>>)

\* ------------------------------------------------ claims on rejections
\* The last request was answered without a call of the upstream.
RejectedBeforeUpstream == served.request.method # "none" /\ ~served.called

\* The round-robin cursor and the recorded pool size of a configuration.
CursorOf(cfg) ==
  <<getConfig(cfg, "round_robin_index"), getConfig(cfg, "round_robin_keys_count")>>

\* C40: a selection the gateway makes for a request is followed by the
\* upstream call with that credential; a request rejected before the upstream
\* call consumed no selection: no total_requests, no last_used_at and not the
\* round-robin cursor are other than it found them.
C40_RejectionConsumesNoSelection ==
  /\ ServedFromPool => (served.called /\ served.key = "pool-key")
  /\ RejectedBeforeUpstream =>
       /\ \A id \in Pool :
            /\ api_keys[id].total_requests = served.keys_before[id].total_requests
            /\ api_keys[id].last_used_at = served.keys_before[id].last_used_at
       /\ CursorOf(pool_config) = CursorOf(served.cfg_before)

\* ------------------------------------------------ claims on the scan
\* The last call was a round-robin selection that returned a credential.
SelectedRoundRobin == Selected /\ IsRoundRobin(last.strategy)

\* The position the scan of the last call started at: the stored cursor, or
\* 0 when there was none or the recorded count was not the eligible count.
StartAtCall ==
  IF \/ getConfig(last.cfg_before, "round_robin_index") = NULL
     \/ CountChangedAtCall
    THEN 0
    ELSE getConfig(last.cfg_before, "round_robin_index")
           % Cardinality(EligibleAtCall)

\* How many positions after the start of the scan id stands, wrapping.
StepsFromStart(id) ==
  (PositionAtCall(id) - StartAtCall + Cardinality(EligibleAtCall))
    % Cardinality(EligibleAtCall)

\* C33: a round-robin selection returns the first available credential met
\* when the eligible list (ascending ids) is scanned forward from the cursor
\* position, wrapping, and stores as cursor that credential's position plus
\* one modulo the length of the eligible list; the result does not depend on
\* the random draw of the fallback.
C33_ScanFindsFirstAvailable ==
  SelectedRoundRobin =>
    /\ last.id \in AvailableAtCall
    /\ \A id \in AvailableAtCall : StepsFromStart(last.id) <= StepsFromStart(id)
    /\ getConfig(pool_config, "round_robin_index")
         = (PositionAtCall(last.id) + 1) % Cardinality(EligibleAtCall)
    /\ \A rnd \in 0 .. MaxKeys - 1 :
         getNextApiKey(NewInstance, last.keys_before, last.cfg_before,
                       last.strategy, rnd, last.at).key = last.id

\* The scan started at an eligible credential that was over the threshold
\* and wrapped to one that stands before it.
C33_Witness ==
  /\ SelectedRoundRobin
  /\ StartAtCall > 0
  /\ \E id \in EligibleAtCall \ AvailableAtCall : PositionAtCall(id) = StartAtCall
  /\ PositionAtCall(last.id) < StartAtCall

\* ------------------------------------------------ claims on failed calls
\* The last call was a selection that failed.
SelectionFailed ==
  /\ last.op = "getNextApiKey"
  /\ last.outcome \in {"PoolExhausted", "AllKeysExhausted"}

\* C35: a selection that fails with PoolExhausted or AllKeysExhausted leaves
\* the store as it found it: every field of every credential, the round-robin
\* cursor and the recorded pool size.
C35_FailedSelectionLeavesStore ==
  SelectionFailed =>
    /\ api_keys = last.keys_before
    /\ pool_config = last.cfg_before

\* A round-robin selection failed on credentials over the threshold while
\* the recorded pool size was not the eligible count.
C35_Witness ==
  /\ SelectionFailed
  /\ IsRoundRobin(last.strategy)
  /\ last.outcome = "AllKeysExhausted"
  /\ getConfig(last.cfg_before, "round_robin_keys_count") # Cardinality(EligibleAtCall)

\* ------------------------------------------------ claims on error counts
\* The step is the sweep of resetExpiredErrors.
SweepStep == api_keys' = resetExpiredErrors(api_keys, pool_config, now)

\* C38: a step that is not resetExpiredErrors lowers no error_count, so a
\* credential whose error_count has reached the threshold keeps it there
\* under getNextApiKey, recordError and disableKeyOnRateLimit.
C38_OnlySweepLowersErrors ==
  [][\A id \in Pool :
       /\ api_keys'[id].error_count < api_keys[id].error_count => SweepStep
       /\ (/\ ~SweepStep
           /\ api_keys[id].error_count >= MaxErrorsThreshold(pool_config))
            => api_keys'[id].error_count >= MaxErrorsThreshold(pool_config')]_vars

\* A selection returned a credential that had an error counted, and the
\* error is still counted.
C38_Witness ==
  /\ Selected
  /\ last.keys_before[last.id].error_count > 0
  /\ api_keys[last.id].error_count = last.keys_before[last.id].error_count

\* ------------------------------------------------ claims on dormant rows
\* The credential is disabled and was never used.
Dormant(keys, id) == ~keys[id].is_active /\ keys[id].last_used_at = NULL

\* The step is a call of the given operation.
StepOf(op) == calls' # calls /\ last'.op = op

\* C39: a credential that is inactive and has no last_used_at is returned by
\* no selection and stays inactive and unused under getNextApiKey,
\* recordError and resetExpiredErrors, whatever the time.
C39_DormantStaysDormant ==
  [][\A id \in Pool :
       (Dormant(api_keys, id) /\ ~StepOf("disableKeyOnRateLimit")) =>
         /\ Dormant(api_keys', id)
         /\ ~(StepOf("getNextApiKey") /\ last'.outcome = "ok" /\ last'.id = id)]_vars

\* After the longest time, a selection was made on a pool that holds a
\* credential disabled and never used, which had an error recorded.
C39_Witness ==
  /\ Selected
  /\ last.at = MaxHours * HourSeconds
  /\ \E id \in Pool : Dormant(api_keys, id) /\ api_keys[id].error_count > 0

\* ------------------------------------------------ claims on calls in flight
\* The call in the place has returned a credential.
Returned(slot) ==
  /\ flight.tasks[slot].kind = "select"
  /\ flight.tasks[slot].pc = "done"
  /\ flight.tasks[slot].outcome = "ok"

\* Two selections that returned read the same rows and the same cursor, and
\* the second had read it and not written it when the first wrote it: both
\* read the cursor before either wrote it.
Raced(a, b) ==
  /\ a # b
  /\ Returned(a)
  /\ Returned(b)
  /\ b \in flight.tasks[a].beside
  /\ flight.tasks[a].allKeys = flight.tasks[b].allKeys
  /\ flight.tasks[a].availableKeys = flight.tasks[b].availableKeys
  /\ flight.tasks[a].currentIndex = flight.tasks[b].currentIndex

\* The 0-based position of a credential among the rows a call read.
PositionIn(allKeys, id) == Cardinality({k \in DOMAIN allKeys : allKeys[k] < id})

\* C32: two round-robin selections that both read the cursor before either
\* wrote it are served the same credential, and both write the same cursor,
\* one position past that credential: the cursor moves by one position for
\* the two selections.
C32_RaceServesSameCredential ==
  \A a, b \in 1 .. MaxInFlight :
    Raced(a, b) =>
      /\ flight.tasks[a].key = flight.tasks[b].key
      /\ flight.tasks[a].written = flight.tasks[b].written
      /\ flight.tasks[b].written
           = (PositionIn(flight.tasks[b].allKeys, flight.tasks[b].key) + 1)
               % Len(flight.tasks[b].allKeys)

\* Two selections raced on a pool with two available credentials: one
\* credential was returned twice, the other not at all, and the cursor in
\* the store is one position on.
C32_Witness ==
  \E a, b \in 1 .. MaxInFlight :
    /\ Raced(a, b)
    /\ Len(flight.tasks[a].availableKeys) >= 2
    /\ flight.returned[flight.tasks[a].key] = 2
    /\ \E id \in Pool : flight.returned[id] = 0 /\ api_keys[id].is_active
    /\ getConfig(pool_config, "round_robin_index") = flight.tasks[a].written
    /\ flight.tasks[a].written = (flight.tasks[a].currentIndex + 1)
                                   % Len(flight.tasks[a].allKeys)

\* The call in the place was recordError and has returned.
Recorded(slot) ==
  flight.tasks[slot].kind = "error" /\ flight.tasks[slot].pc = "done"

\* C37: under every interleaving of selections and recordError calls no
\* update of a counter is lost: total_requests of a credential is its value
\* at the start plus the number of selections that returned it, and
\* error_count the number of recordError calls on it that returned since its
\* errors were last reset.
C37_CountersLoseNoUpdate ==
  \A id \in Pool :
    /\ api_keys[id].total_requests
         = flight.initial[id].total_requests + flight.returned[id]
    /\ api_keys[id].error_count = flight.recorded[id]

\* Two recordError calls for one credential both read its error count before
\* either wrote, and two selections returned one credential.
C37_Witness ==
  /\ \E a, b \in 1 .. MaxInFlight :
       /\ a # b
       /\ Recorded(a)
       /\ Recorded(b)
       /\ flight.tasks[a].id = flight.tasks[b].id
       /\ flight.tasks[a].keyInfo = flight.tasks[b].keyInfo
       /\ api_keys[flight.tasks[a].id].error_count = flight.tasks[a].keyInfo + 2
  /\ \E id \in Pool : flight.returned[id] = 2

\* The credential was disabled by disableKeyOnRateLimit and its cooldown has
\* not elapsed.
CoolingDown(id) ==
  /\ flight.disabled[id].time # NULL
  /\ now - flight.disabled[id].time < CooldownHours(pool_config) * HourSeconds

\* C36: once disableKeyOnRateLimit(id) has returned, until the cooldown has
\* elapsed id is inactive and no selection returns it, also not one that was
\* in flight and had read the pool before.
C36_DisabledStaysOutWhileCooling ==
  \A id \in Pool :
    CoolingDown(id) =>
      /\ ~api_keys[id].is_active
      /\ flight.disabled[id].served = 0

\* ------------------------------------------------ claims on fairness
\* The selections that may choose other credentials while one of a pool of
\* n waits for its turn: each of the MaxInFlight selections in flight can
\* hold a cursor of every earlier position and write it back.
Round(n) == MaxInFlight ^ n - 1

\* C34: on a fixed pool whose credentials all stay available, with at most
\* MaxInFlight selections in flight, the unfairness is bounded and no
\* credential is starved: while selections go on, no more than a round of
\* them choose other credentials before a credential is chosen again.
C34_NoCredentialStarved ==
  \A id \in Pool : flight.waited[id] <= Round(Cardinality(Pool))

\* On a full pool every credential was returned, and interleaved selections
\* then made one wait longer than a rotation made of selections one after
\* the other.
C34_Witness ==
  /\ Cardinality(Pool) = MaxKeys
  /\ \A id \in Pool : flight.returned[id] >= 1
  /\ \E id \in Pool : flight.waited[id] > MaxKeys - 1

====
